---------------------------- MODULE Spec2Model ----------------------------
(***************************************************************************)
(* A model of the TigerASI serial protocol engine                          *)
(* (src/src/tigerasi/tiger_controller.py, device_codes.py).                *)
(*                                                                         *)
(* The controller object owns one serial transport.  A text is a sequence  *)
(* of one-character strings, so that trimming and comparing a reply is     *)
(* computed as the code computes it.  The device answers every command it  *)
(* receives with exactly one reply unit, in the order the commands were    *)
(* written; `inflight` holds the commands the device has not answered yet  *)
(* and `rx` the reply units waiting in the input buffer of the port.       *)
(***************************************************************************)
EXTENDS Integers, Sequences, FiniteSets, TLC

VARIABLES
    skipped_replies,      \* self.skipped_replies
    inflight,             \* commands written to the port, not yet answered
    rx,                   \* reply units in the input buffer of the port
    pc,                   \* "idle": between calls; "read": inside send()'s
                          \* loop; "done": the call has returned or raised
    call,                 \* the call in progress or just ended
    todo,                 \* the sends the call in progress has still to make
    cur,                  \* the send in progress (its line, wait and effect)
    written,              \* lines written to the port by that call, in order
    nread,                \* reply units read from the port by that call
    reply,                \* send()'s local `reply`: the unit read last
    result,               \* how the call ended
    retval,               \* what the last send() that returned has returned
    value,                \* what the call that has ended has returned
    ffRun,                \* fire-and-forget sends made since the line was quiet
    hist,                 \* which setup calls and relative moves have been made
    scan_card_addr,       \* self._scan_card_addr
    scan_fast_axis,       \* self._scan_fast_axis
    array_scan_card_addr, \* self._array_scan_card_addr
    last_rel_move_axes,   \* self._last_rel_move_axes
    rb_axes,              \* self._rb_axes
    ticks_cache,          \* get_encoder_ticks_per_mm's cache: axis -> result
    ordered_axes,         \* self.ordered_axes (lettered axes, hardware order)
    ordered_filter_wheels, \* self.ordered_filter_wheels (numeric axis names)
    axis_to_card,         \* self.axis_to_card: axis -> <<card address, index>>
    axis_to_type,         \* self.axis_to_type: axis -> axis type letter
    card_modules,         \* self._card_modules: card address -> module names
    text,                 \* input of the reply decoder (decoder specification)
    raised                \* what the reply decoder did with `text`

engine  == <<skipped_replies, inflight, rx, pc, call, todo, cur, written,
             nread, reply, result, retval, value, ffRun, hist>>
session == <<scan_card_addr, scan_fast_axis, array_scan_card_addr,
             last_rel_move_axes, rb_axes, ticks_cache>>
topology == <<ordered_axes, ordered_filter_wheels, axis_to_card, axis_to_type,
              card_modules>>
decoder == <<text, raised>>
vars    == <<engine, session, topology, decoder>>

-----------------------------------------------------------------------------
(* Bounds of the model.                                                    *)

\* Commands written whose reply has not been read: at most this many.
MaxOutstanding == 4
\* Trailing characters appended to a reply body in the decoder specification.
MaxTerm == 2
\* The decoder is tried on the bodies ":N-0" .. ":N-MaxCode".
MaxCode == 23

-----------------------------------------------------------------------------
(* Texts.                                                                   *)

CR == "\r"
LF == "\n"
None == "None"

Digit == <<"0", "1", "2", "3", "4", "5", "6", "7", "8", "9">>

\* str(n) for 0 <= n <= 99.
Str(n) == IF n < 10 THEN <<Digit[n + 1]>>
                    ELSE <<Digit[(n \div 10) + 1], Digit[(n % 10) + 1]>>

\* s.rstrip(chars)
RECURSIVE rstrip(_, _)
rstrip(s, chars) ==
    IF s # <<>> /\ s[Len(s)] \in chars
    THEN rstrip(SubSeq(s, 1, Len(s) - 1), chars)
    ELSE s

\* s.lstrip(chars)
RECURSIVE lstrip(_, _)
lstrip(s, chars) ==
    IF s # <<>> /\ s[1] \in chars THEN lstrip(Tail(s), chars) ELSE s

\* s.strip(chars)
strip(s, chars) == lstrip(rstrip(s, chars), chars)

\* s.upper() on the axis names a caller may give.
upper(a) ==
    CASE a = "x" -> "X"
      [] a = "y" -> "Y"
      [] a = "z" -> "Z"
      [] a = "q" -> "Q"
      [] OTHER   -> a

\* text.split(): the runs of characters other than blank, CR and LF.
RECURSIVE split(_)
split(s) ==
    LET blank(c) == c \in {" ", CR, LF} IN
    IF s = <<>> THEN <<>>
    ELSE IF blank(s[1]) THEN split(Tail(s))
    ELSE LET n == IF \E i \in DOMAIN s : blank(s[i])
                  THEN (CHOOSE i \in DOMAIN s :
                           blank(s[i]) /\ \A j \in 1..(i - 1) : ~blank(s[j])) - 1
                  ELSE Len(s)
         IN  <<SubSeq(s, 1, n)>> \o split(SubSeq(s, n + 1, Len(s)))

\* float(tok) of a text of decimal digits.
RECURSIVE float(_)
float(tok) ==
    IF tok = <<>> THEN 0
    ELSE 10 * float(SubSeq(tok, 1, Len(tok) - 1))
         + (CHOOSE d \in 0..9 : Digit[d + 1] = tok[Len(tok)])

\* s.split(c)[0] and s.split(c)[1] of a text that holds c: what comes before
\* the first c, and what comes between the first c and the next (or the end).
split_0(s, c) ==
    SubSeq(s, 1, (CHOOSE i \in DOMAIN s : s[i] = c /\ \A j \in 1..(i - 1) : s[j] # c) - 1)
split_1(s, c) ==
    LET rest == SubSeq(s, Len(split_0(s, c)) + 2, Len(s)) IN
    IF \E i \in DOMAIN rest : rest[i] = c THEN split_0(rest, c) ELSE rest

\* s.split(c)[-1]: what follows the last c in s, all of s if it holds none.
after_last(s, c) ==
    LET I == {i \in DOMAIN s : s[i] = c} IN
    IF I = {} THEN s
    ELSE SubSeq(s, (CHOOSE i \in I : \A j \in I : j <= i) + 1, Len(s))

\* a.isnumeric() on an axis name (one character).
isnumeric(a) == a \in {Digit[i] : i \in DOMAIN Digit}

-----------------------------------------------------------------------------
(* device_codes.py                                                         *)

ACK == <<":", "A">>

\* The ErrorCodes table holds ':N-1' .. ':N-21'.
NumErrorCodes == 21
ErrorCodeValue(n) == <<":", "N", "-">> \o Str(n)
ErrorCodes == {ErrorCodeValue(n) : n \in 1..NumErrorCodes}

\* ScanPattern: the wire value of a member.
ScanPattern(name) ==
    CASE name = "RASTER"     -> 0
      [] name = "SERPENTINE" -> 1

\* TTLIn0Mode: the wire value of a member.
TTLIn0Mode(name) ==
    CASE name = "OFF"                              -> 0
      [] name = "MOVE_TO_NEXT_ABS_POSITION"        -> 1
      [] name = "REPEAT_LAST_REL_MOVE"             -> 2
      [] name = "ARRAY_MODE_MOVE_TO_NEXT_POSITION" -> 7
      [] name = "MOVE_TO_NEXT_REL_POSITION"        -> 12

\* RingBufferMode: the wire value of a member.
RingBufferMode(name) ==
    CASE name = "TTL"       -> 0
      [] name = "ONE_SHOT"  -> 1
      [] name = "REPEATING" -> 2

-----------------------------------------------------------------------------
(* Values shared by the operations.                                        *)

\* A reply unit read from the port; `own` tells whether it answers the
\* command written by the send() now in progress.
NoUnit == [some |-> FALSE, own |-> FALSE, val |-> <<>>]
Unit(own, val) == [some |-> TRUE, own |-> own, val |-> val]

\* A command line: f"{card}{cmd}{args}{kwds}\r".  `args` are the positional
\* flags in order, each a <<name, suffix>> pair ("X+" is <<"X", "+">>), `kw`
\* the <<name, value>> pairs in order.
Line(card, cmd, args, kw) == [card |-> card, cmd |-> cmd, args |-> args, kw |-> kw]
NoLine == Line(None, "", <<>>, <<>>)

\* What a call does to the session state once one of its sends has returned.
NoEff == [kind |-> "none", axes |-> <<>>]
Eff(kind, axes) == [kind |-> kind, axes |-> axes]

\* One self.send(line, wait=wait) of a call, with the assignment that follows it.
Item(line, wait, eff) == [line |-> line, wait |-> wait, eff |-> eff]
NoItem == Item(NoLine, FALSE, NoEff)

Sess == [scan_card_addr       |-> scan_card_addr,
         scan_fast_axis       |-> scan_fast_axis,
         array_scan_card_addr |-> array_scan_card_addr,
         last_rel_move_axes   |-> last_rel_move_axes,
         rb_axes              |-> rb_axes,
         ticks_cache          |-> ticks_cache]

\* The session state __init__ sets up.
NoSess == [scan_card_addr       |-> None,
           scan_fast_axis       |-> None,
           array_scan_card_addr |-> None,
           last_rel_move_axes   |-> <<>>,
           rb_axes              |-> <<>>,
           ticks_cache          |-> <<>>]

Topo == [ordered_axes          |-> ordered_axes,
         ordered_filter_wheels |-> ordered_filter_wheels,
         axis_to_card          |-> axis_to_card,
         axis_to_type          |-> axis_to_type,
         card_modules          |-> card_modules]

\* No controller object is constructed yet.
NoTopo == [ordered_axes          |-> <<>>,
           ordered_filter_wheels |-> <<>>,
           axis_to_card          |-> <<>>,
           axis_to_type          |-> <<>>,
           card_modules          |-> <<>>]

\* The calls made so far, as far as later calls depend on them: whether
\* setup_scan (setup_array_scan) has been called since connection and since
\* the last start_scan (start_array_scan), whether setup_ring_buffer has been
\* called since connection and since the last reset_ring_buffer that returned,
\* the axes of the last move_relative that returned, for every axis the
\* answer to the first CNTS query of that axis that send() has returned, and
\* whether clear_incoming_message_queue has been called since the port was
\* last read.
NoHist == [scan |-> FALSE, array |-> FALSE, rb |-> FALSE, rel |-> <<>>,
           ticks |-> <<>>, clear |-> FALSE]

HistCall(h, op) ==
    CASE op = "setup_scan"        -> [h EXCEPT !.scan = TRUE]
      [] op = "start_scan"        -> [h EXCEPT !.scan = FALSE]
      [] op = "setup_array_scan"  -> [h EXCEPT !.array = TRUE]
      [] op = "start_array_scan"  -> [h EXCEPT !.array = FALSE]
      [] op = "setup_ring_buffer" -> [h EXCEPT !.rb = TRUE]
      [] OTHER                    -> h

HistReturned(h, c) ==
    CASE c.op = "move_relative" ->
             [h EXCEPT !.rel = [i \in DOMAIN c.kwds |-> upper(c.kwds[i][1])]]
      [] c.op = "reset_ring_buffer" -> [h EXCEPT !.rb = FALSE]
      [] OTHER -> h

\* `float(reply.split('=')[-1].split()[0])` of the reply to a CNTS query.
encoder_ticks(r) == float(split(after_last(r, "="))[1])

\* A unit has been read from the port.
HistRead(h) == [h EXCEPT !.clear = FALSE]

\* send() has returned the unit u for the line it wrote.
HistSent(h, line, u) ==
    IF line.cmd = "CNTS" /\ line.args[1][1] \notin DOMAIN h.ticks
    THEN [h EXCEPT !.ticks = (line.args[1][1] :> encoder_ticks(u.val)) @@ @]
    ELSE h

\* No call is in progress.
NoCall == [op |-> "none", line |-> NoLine, args |-> <<>>, kwds |-> <<>>,
           wait |-> TRUE, opts |-> {}, k |-> 0, sk0 |-> 0, s0 |-> NoSess,
           h0 |-> NoHist]

\* The assignment that follows a send(); u is the unit that send() returned
\* (NoUnit when it did not wait).
ApplyEff(s, eff, u) ==
    CASE eff.kind = "last_rel" -> [s EXCEPT !.last_rel_move_axes = eff.axes]
      [] eff.kind = "rb_reset" -> [s EXCEPT !.rb_axes = <<>>]
      [] eff.kind = "cache"    ->
             [s EXCEPT !.ticks_cache = (eff.axes[1] :> encoder_ticks(u.val)) @@ @]
      [] OTHER                 -> s

ResetOwn(q) == [i \in DOMAIN q |-> [q[i] EXCEPT !.own = FALSE]]

Outstanding == Len(inflight) + Len(rx)

\* Nothing is pending anywhere: the state right after connection.
Quiet(p, sk, infl, r) == p # "read" /\ sk = 0 /\ infl = <<>> /\ r = <<>>

-----------------------------------------------------------------------------
(* The reply decoder: TigerController.check_reply_for_errors.              *)

\* ErrorCodes(v): the number of the entry whose value is v; 0 stands for the
\* ValueError of a value that is not in the table.
ErrorCodes_of(v) ==
    IF v \in ErrorCodes
    THEN CHOOSE n \in 1..NumErrorCodes : ErrorCodeValue(n) = v
    ELSE 0

\* (mutant) only the line feed is trimmed from the reply.
check_reply_trims_lf_only(r) == ErrorCodes_of(rstrip(r, {LF}))

\* The number of the error code the SyntaxError raised names; 0 when the call
\* returns None (the ValueError of the lookup is swallowed).
check_reply_for_errors(r) == ErrorCodes_of(rstrip(r, {CR, LF}))

-----------------------------------------------------------------------------
(* The transaction engine: TigerController.send.                           *)

\* (mutant) the send that does not wait forgets to count its reply.
skip_reply_forgotten(sk) == sk

\* (mutant) the send that does not wait counts its reply twice.
skip_reply_twice(sk) == sk + 2

\* `self.skipped_replies += 1` of a send that does not wait.
skip_reply(sk) == sk + 1

\* (mutant) the loop stops one unit early.
drain_one_early(sk) == IF sk > 1 THEN [skipped |-> sk - 1, brk |-> FALSE]
                                 ELSE [skipped |-> 0, brk |-> TRUE]

\* (mutant) the counter is decremented before it is tested.
drain_decrement_first(sk) == [skipped |-> sk - 1, brk |-> sk - 1 <= 0]

\* The end of the loop body: a unit that raised nothing either counts as a
\* skipped reply (and the loop goes on) or is the reply of this send (break).
drain(sk) == IF sk # 0 THEN [skipped |-> sk - 1, brk |-> FALSE]
                       ELSE [skipped |-> sk, brk |-> TRUE]

\* (mutant) a unit counted as a skipped reply is dropped before it is checked.
loop_body_skip_unchecked(r, sk) ==
    IF sk # 0 THEN [raise |-> FALSE, skipped |-> sk - 1, brk |-> FALSE]
    ELSE [raise |-> check_reply_for_errors(r) # 0, skipped |-> sk,
          brk |-> check_reply_for_errors(r) = 0]

\* (mutant) a unit that raises is counted as a skipped reply all the same.
loop_body_counts_fault(r, sk) ==
    IF check_reply_for_errors(r) # 0
    THEN [raise |-> TRUE, skipped |-> IF sk # 0 THEN sk - 1 ELSE sk,
          brk |-> FALSE]
    ELSE [raise |-> FALSE, skipped |-> drain(sk).skipped, brk |-> drain(sk).brk]

\* The loop body of send() on the unit just read: the error check comes first
\* and its SyntaxError leaves the loop with the counter as it was.
loop_body(r, sk) ==
    IF check_reply_for_errors(r) # 0
    THEN [raise |-> TRUE, skipped |-> sk, brk |-> FALSE]
    ELSE [raise |-> FALSE, skipped |-> drain(sk).skipped, brk |-> drain(sk).brk]

\* A command the device has still to answer: whether it is the command of
\* the send in progress, whether it is the status query ("/"), the axes it
\* asks the position of (the WHERE command, "W"), and the axis it asks the
\* encoder ticks of (the CNTS command).
Pending(own, line) ==
    [own |-> own, status |-> line.cmd = "/",
     where |-> IF line.cmd = "W" THEN [i \in DOMAIN line.args |-> line.args[i][1]]
                                 ELSE <<>>,
     cnts |-> IF line.cmd = "CNTS" THEN line.args[1][1] ELSE ""]

\* The sends of `plan` up to the first one that waits for its reply: each is
\* written; one that does not wait counts a skipped reply and returns at once.
RECURSIVE Proceed(_, _, _, _, _)
Proceed(sk, infl, wr, s, plan) ==
    IF plan = <<>>
    THEN [sk |-> sk, infl |-> infl, wr |-> wr, s |-> s,
          pc |-> "done", cur |-> NoItem, todo |-> <<>>]
    ELSE LET it == Head(plan) IN
         IF it.wait
         THEN [sk |-> sk,
               infl |-> Append(infl, Pending(TRUE, it.line)),
               wr |-> Append(wr, it.line), s |-> s,
               pc |-> "read", cur |-> it, todo |-> Tail(plan)]
         ELSE Proceed(skip_reply(sk),
                      Append(infl, Pending(FALSE, it.line)),
                      Append(wr, it.line), ApplyEff(s, it.eff, NoUnit),
                      Tail(plan))

SetSession(s) ==
    /\ scan_card_addr' = s.scan_card_addr
    /\ scan_fast_axis' = s.scan_fast_axis
    /\ array_scan_card_addr' = s.array_scan_card_addr
    /\ last_rel_move_axes' = s.last_rel_move_axes
    /\ rb_axes' = s.rb_axes
    /\ ticks_cache' = s.ticks_cache

\* (mutant) a call that returns normally leaves no topology behind.
topology_forgotten(c, r, t) ==
    IF r # "ok" THEN t ELSE IF c.op = "__init__" THEN c.args[1] ELSE NoTopo

\* The topology once the call c has ended with r: __init__ assigns it when
\* it returns; no other operation assigns any of its fields.
topology_after(c, r, t) ==
    IF c.op = "__init__" /\ r = "ok" THEN c.args[1] ELSE t

SetTopology(t) ==
    /\ ordered_axes' = t.ordered_axes
    /\ ordered_filter_wheels' = t.ordered_filter_wheels
    /\ axis_to_card' = t.axis_to_card
    /\ axis_to_type' = t.axis_to_type
    /\ card_modules' = t.card_modules

\* `self.send(f"{Cmds.STATUS.value}\r")` of is_moving.
StatusQuery == Item(Line(None, "/", <<>>, <<>>), TRUE, NoEff)

\* (mutant) the two answers are taken for each other.
is_moving_returns_swapped(r) ==
    IF rstrip(r, {CR, LF}) = <<"N">> THEN "True"
    ELSE IF rstrip(r, {CR, LF}) = <<"B">> THEN "False"
    ELSE "RuntimeError"

\* is_moving: what it makes of the reply its send() returned.
is_moving_returns(r) ==
    IF rstrip(r, {CR, LF}) = <<"B">> THEN "True"
    ELSE IF rstrip(r, {CR, LF}) = <<"N">> THEN "False"
    ELSE "RuntimeError"

\* What the operation c does once its send() has returned the unit u, with
\* the sends `rest` still to make: the exception it raises then ("none" if
\* none) and the sends it goes on with.  `while self.is_moving(): pass` of
\* wait() sends the next status query when the answer is True.
after_reply(c, u, rest) ==
    IF c.op \notin {"is_moving", "wait"} THEN [fault |-> "none", todo |-> rest]
    ELSE IF is_moving_returns(u.val) = "RuntimeError"
    THEN [fault |-> "RuntimeError", todo |-> <<>>]
    ELSE IF c.op = "wait" /\ is_moving_returns(u.val) = "True"
    THEN [fault |-> "none", todo |-> <<StatusQuery>>]
    ELSE [fault |-> "none", todo |-> rest]

\* What the operation c returns when it ends normally, u being the unit its
\* last send() returned and s the session state; None also stands for the
\* values of the operations whose return value is not modelled.
return_value(c, u, s) ==
    CASE c.op = "is_moving" -> is_moving_returns(u.val)
      [] c.op = "get_encoder_ticks_per_mm" -> s.ticks_cache[upper(c.args[1])]
      [] OTHER -> None

MkCall(op, line, args, kwds, wait, opts) ==
    [op |-> op, line |-> line, args |-> args, kwds |-> kwds, wait |-> wait,
     opts |-> opts, k |-> ffRun, sk0 |-> skipped_replies, s0 |-> Sess,
     h0 |-> hist]

\* A public operation is called: `fault` is the exception its checks raise
\* before it sends anything ("none" if none), `s` the session state after the
\* assignments made up to there, `plan` the sends it then makes.
Begin(c, fault, s, plan) ==
    /\ pc = "idle"
    /\ fault = "none" => Outstanding + Len(plan) <= MaxOutstanding
    /\ call' = c
    /\ nread' = 0
    /\ reply' = NoUnit
    /\ retval' = NoUnit
    /\ rx' = rx
    /\ IF fault # "none"
       THEN /\ result' = fault
            /\ written' = <<>>
            /\ todo' = <<>>
            /\ cur' = NoItem
            /\ pc' = "done"
            /\ SetSession(s)
            /\ UNCHANGED <<skipped_replies, inflight>>
       ELSE LET p == Proceed(skipped_replies, inflight, <<>>, s, plan) IN
            /\ result' = IF p.pc = "done" THEN "ok" ELSE "running"
            /\ written' = p.wr
            /\ todo' = p.todo
            /\ cur' = p.cur
            /\ pc' = p.pc
            /\ skipped_replies' = p.sk
            /\ inflight' = p.infl
            /\ SetSession(p.s)
    /\ ffRun' = IF Quiet(pc', skipped_replies', inflight', rx') THEN 0
                ELSE IF c.op = "send" /\ ~c.wait /\ ffRun >= 0 THEN ffRun + 1
                ELSE -1
    /\ hist' = IF result' = "ok" THEN HistReturned(HistCall(hist, c.op), c)
                                 ELSE HistCall(hist, c.op)
    /\ value' = IF result' = "ok" THEN return_value(c, NoUnit, s) ELSE None
    /\ UNCHANGED <<topology, decoder>>

\* (mutant) a fault is let through unless it answers the last command of
\* the operation.
raises_on_last_only(d, rest) == d.raise /\ rest = <<>>

\* The SyntaxError check_reply_for_errors raises is caught nowhere: it
\* leaves send() and the operation, whatever sends the operation has left.
raises(d, rest) == d.raise

\* One turn of the loop of send(): read a unit, check it, count it.
ReadUnit ==
    /\ pc = "read"
    /\ rx # <<>>
    /\ LET u == Head(rx)
           d == loop_body(u.val, skipped_replies) IN
       /\ nread' = nread + 1
       /\ reply' = u
       /\ IF raises(d, todo)
          THEN \* the SyntaxError leaves send() and the operation that called it
               /\ pc' = "done"
               /\ result' = "DeviceError"
               /\ todo' = <<>>
               /\ cur' = NoItem
               /\ rx' = ResetOwn(Tail(rx))
               /\ inflight' = ResetOwn(inflight)
               /\ skipped_replies' = d.skipped
               /\ value' = None
               /\ hist' = HistRead(hist)
               /\ UNCHANGED <<written, retval, session>>
          ELSE IF ~d.brk
               THEN /\ skipped_replies' = d.skipped
                    /\ rx' = Tail(rx)
                    /\ hist' = HistRead(hist)
                    /\ UNCHANGED <<pc, result, todo, cur, inflight, written,
                                   retval, value, session>>
               ELSE \* send() returns u; the operation goes on
                    LET a == after_reply(call, u, todo)
                        p == Proceed(d.skipped, ResetOwn(inflight), written,
                                     ApplyEff(Sess, cur.eff, u), a.todo)
                        h == HistSent(HistRead(hist), cur.line, u) IN
                    /\ retval' = u
                    /\ rx' = ResetOwn(Tail(rx))
                    /\ result' = IF a.fault # "none" THEN a.fault
                                  ELSE IF p.pc = "done" THEN "ok" ELSE "running"
                    /\ written' = p.wr
                    /\ todo' = p.todo
                    /\ cur' = p.cur
                    /\ pc' = p.pc
                    /\ skipped_replies' = p.sk
                    /\ inflight' = p.infl
                    /\ SetSession(p.s)
                    /\ value' = IF result' = "ok" THEN return_value(call, u, p.s)
                                                  ELSE None
                    /\ hist' = IF result' = "ok" THEN HistReturned(h, call) ELSE h
    /\ call' = call
    /\ ffRun' = IF Quiet(pc', skipped_replies', inflight', rx') THEN 0 ELSE -1
    /\ SetTopology(topology_after(call, result', Topo))
    /\ UNCHANGED decoder

\* TigerController.send called by the user.
RawLines == {Line(None, "W", <<<<"X", "">>>>, <<>>), Line(None, "/", <<>>, <<>>)}

\* (mutant) send() waits for the reply whatever `wait` says.
send_always_waits(line, wait) ==
    Begin(MkCall("send", line, <<>>, <<>>, wait, {}), "none", Sess,
          <<Item(line, TRUE, NoEff)>>)

send(line, wait) ==
    Begin(MkCall("send", line, <<>>, <<>>, wait, {}), "none", Sess,
          <<Item(line, wait, NoEff)>>)

\* TigerController.clear_incoming_message_queue
clear_incoming_message_queue ==
    /\ pc = "idle"
    /\ pc' = "done"
    /\ skipped_replies' = 0
    /\ rx' = <<>>
    /\ call' = MkCall("clear_incoming_message_queue", NoLine, <<>>, <<>>, TRUE, {})
    /\ result' = "ok"
    /\ written' = <<>>
    /\ nread' = 0
    /\ reply' = NoUnit
    /\ retval' = NoUnit
    /\ value' = None
    /\ hist' = [hist EXCEPT !.clear = TRUE]
    /\ UNCHANGED <<inflight, todo, cur, session, topology, decoder>>
    /\ ffRun' = IF Quiet(pc', skipped_replies', inflight', rx') THEN 0 ELSE -1

\* The call that has ended hands its value or its exception to the caller;
\* the controller is ready for the next call.
Return ==
    /\ pc = "done"
    /\ pc' = "idle"
    /\ call' = NoCall
    /\ result' = "none"
    /\ written' = <<>>
    /\ nread' = 0
    /\ reply' = NoUnit
    /\ retval' = NoUnit
    /\ value' = None
    /\ UNCHANGED <<skipped_replies, inflight, rx, todo, cur, ffRun, hist,
                   session, topology, decoder>>

-----------------------------------------------------------------------------
(* The decorators and the helpers of the high-level operations.            *)

Range(q) == {q[i] : i \in DOMAIN q}
Keys(kwds) == [i \in DOMAIN kwds |-> kwds[i][1]]
Upper(q) == [i \in DOMAIN q |-> upper(q[i])]
UpperKeys(kwds) == [i \in DOMAIN kwds |-> <<upper(kwds[i][1]), kwds[i][2]>>]
Flags(q, suffix) == [i \in DOMAIN q |-> <<q[i], suffix>>]

\* The items of q without the repetitions (the keys of a dict built from q).
RECURSIVE Dedup(_)
Dedup(q) ==
    IF q = <<>> THEN <<>>
    ELSE LET r == Dedup(SubSeq(q, 1, Len(q) - 1)) IN
         IF q[Len(q)] \in Range(r) THEN r ELSE Append(r, q[Len(q)])

\* self.axes = set(self.ordered_axes)
axes == Range(ordered_axes)

\* self.ordered_axes.index(a)
IndexOf(a) == CHOOSE i \in DOMAIN ordered_axes : ordered_axes[i] = a

\* round(v, MM_SCALE): a value v counts hundred-thousandths, and the result is
\* the nearest multiple of ten of them (a tie goes to the even one).
round_mm(v) ==
    LET q == v \div 10
        r == v % 10
    IN  IF r < 5 \/ (r = 5 /\ q % 2 = 0) THEN q * 10 ELSE (q + 1) * 10

\* round(v, DEG_SCALE): v counts ten-thousandths of a degree.
round_deg(v) ==
    LET q == v \div 10
        r == v % 10
    IN  IF r < 5 \/ (r = 5 /\ q % 2 = 0) THEN q * 10 ELSE (q + 1) * 10

RoundValues(kwds) == [i \in DOMAIN kwds |-> <<kwds[i][1], round_mm(kwds[i][2])>>]

FirstFault(f, g) == IF f # "none" THEN f ELSE g

\* The decorator axis_check(*args_to_skip): the arguments upper-cased, less
\* the skipped ones, are checked against self.axes and handed to the
\* function.  A skipped keyword is not handed on: a `wait` the caller gave
\* is dropped when it is skipped, and the function then runs with its
\* default, wait=True.
axis_check(skip, args, kwds, wait) ==
    LET a == Upper(SelectSeq(args, LAMBDA x : x \notin skip))
        k == UpperKeys(kwds)
        iterable == SelectSeq(a, LAMBDA x : x \notin Range(Keys(k))) \o Keys(k)
    IN  [fault |-> IF \E i \in DOMAIN iterable : upper(iterable[i]) \notin axes
                   THEN "AssertionError" ELSE "none",
         args |-> a,
         kwds |-> k,
         wait |-> IF "wait" \in skip THEN TRUE ELSE wait]

\* (mutant) the check raises only when more than one axis is given twice.
no_repeated_axis_check_needs_two(args, kwds) ==
    IF Cardinality(Range(Upper(args)) \cap Range(Upper(Keys(kwds)))) > 1
    THEN "SyntaxError" ELSE "none"

\* The decorator no_repeated_axis_check.
no_repeated_axis_check(args, kwds) ==
    IF Cardinality(Range(Upper(args)) \cap Range(Upper(Keys(kwds)))) # 0
    THEN "SyntaxError" ELSE "none"

\* The line _set_cmd_args_and_kwds builds; the flags are <<name, suffix>>.
set_cmd_args_and_kwds(cmd, flags, kwds, card) ==
    Line(card, cmd, [i \in DOMAIN flags |-> <<upper(flags[i][1]), flags[i][2]>>],
         UpperKeys(kwds))

\* The line _reset_setting builds.
reset_setting(cmd, args) == Line(None, cmd, Flags(Upper(args), "-"), <<>>)

\* The line _get_axis_value builds.
get_axis_value(cmd, args) == Line(None, cmd, Flags(Upper(args), "?"), <<>>)

\* (mutant) the operation starts from the session state of a new connection.
OneSend_resets_session(c, fault, line, wait, eff) ==
    Begin(c, fault, NoSess, <<Item(line, wait, eff)>>)

\* An operation that checks, then makes one send.
OneSend(c, fault, line, wait, eff) ==
    Begin(c, fault, Sess, <<Item(line, wait, eff)>>)

Call(op, args, kwds, wait) == MkCall(op, NoLine, args, kwds, wait, {})

-----------------------------------------------------------------------------
(* The high-level operations.                                              *)

halt(wait) ==
    OneSend(Call("halt", <<>>, <<>>, wait), "none",
            set_cmd_args_and_kwds("\\", <<>>, <<>>, None), wait, NoEff)

\* (mutant) the axes of a move are added to those of the moves before it.
last_rel_move_axes_added(kwds) ==
    Dedup(last_rel_move_axes \o SelectSeq(Keys(kwds), LAMBDA x : x \in axes))

\* `self._last_rel_move_axes = [x for x in axes if x in self.axes]`
last_rel_move_axes_of(kwds) == SelectSeq(Keys(kwds), LAMBDA x : x \in axes)

move_relative(kwds, wait) ==
    LET v == axis_check({"wait"}, <<>>, kwds, wait) IN
    OneSend(Call("move_relative", <<>>, kwds, wait), v.fault,
            set_cmd_args_and_kwds("R", <<>>, v.kwds, None), v.wait,
            Eff("last_rel", last_rel_move_axes_of(v.kwds)))

move_absolute(kwds, wait) ==
    LET v == axis_check({"wait"}, <<>>, kwds, wait) IN
    OneSend(Call("move_absolute", <<>>, kwds, wait), v.fault,
            set_cmd_args_and_kwds("M", <<>>, v.kwds, None), v.wait, NoEff)

home(args, wait) ==
    LET v == axis_check({"wait"}, args, <<>>, wait) IN
    OneSend(Call("home", args, <<>>, wait), v.fault,
            set_cmd_args_and_kwds("!", Flags(v.args, ""), <<>>, None), v.wait,
            NoEff)

set_home(args, kwds, wait) ==
    LET v == axis_check({"wait"}, args, kwds, wait) IN
    OneSend(Call("set_home", args, kwds, wait),
            FirstFault(v.fault, no_repeated_axis_check(v.args, v.kwds)),
            set_cmd_args_and_kwds("HM", Flags(v.args, ""), v.kwds, None),
            v.wait, NoEff)

reset_home(args, wait) ==
    LET v == axis_check({"wait"}, args, <<>>, wait) IN
    OneSend(Call("reset_home", args, <<>>, wait), v.fault,
            reset_setting("HM", v.args), v.wait, NoEff)

get_home(args) ==
    LET v == axis_check({}, args, <<>>, TRUE) IN
    OneSend(Call("get_home", args, <<>>, TRUE), v.fault,
            get_axis_value("HM", IF v.args = <<>> THEN ordered_axes ELSE v.args),
            TRUE, NoEff)

set_position(kwds, wait) ==
    LET v == axis_check({"wait"}, <<>>, kwds, wait) IN
    OneSend(Call("set_position", <<>>, kwds, wait), v.fault,
            set_cmd_args_and_kwds("H", <<>>, v.kwds, None), v.wait, NoEff)

\* zero_in_place hands its axes to set_position, which is decorated as well.
zero_in_place(args, wait) ==
    LET v == axis_check({"wait"}, args, <<>>, wait)
        a == Dedup(IF v.args = <<>> THEN ordered_axes ELSE v.args)
        w == axis_check({"wait"}, <<>>, [i \in DOMAIN a |-> <<a[i], 0>>], v.wait)
    IN  OneSend(Call("zero_in_place", args, <<>>, wait),
                FirstFault(v.fault, w.fault),
                set_cmd_args_and_kwds("H", <<>>, w.kwds, None), w.wait, NoEff)

\* set_lower_travel_limit and set_upper_travel_limit do not hand `wait` on.
set_lower_travel_limit(args, kwds, wait) ==
    LET v == axis_check({"wait"}, args, kwds, wait) IN
    OneSend(Call("set_lower_travel_limit", args, kwds, wait),
            FirstFault(v.fault, no_repeated_axis_check(v.args, v.kwds)),
            set_cmd_args_and_kwds("SL", Flags(v.args, "+"), RoundValues(v.kwds),
                                  None),
            TRUE, NoEff)

get_lower_travel_limit(args) ==
    OneSend(Call("get_lower_travel_limit", args, <<>>, TRUE), "none",
            get_axis_value("SL", args), TRUE, NoEff)

reset_lower_travel_limits(args, wait) ==
    LET v == axis_check({"wait"}, args, <<>>, wait) IN
    OneSend(Call("reset_lower_travel_limits", args, <<>>, wait), v.fault,
            reset_setting("SL", IF v.args = <<>> THEN ordered_axes ELSE v.args),
            v.wait, NoEff)

set_upper_travel_limit(args, kwds, wait) ==
    LET v == axis_check({"wait"}, args, kwds, wait) IN
    OneSend(Call("set_upper_travel_limit", args, kwds, wait),
            FirstFault(v.fault, no_repeated_axis_check(v.args, v.kwds)),
            set_cmd_args_and_kwds("SU", Flags(v.args, "+"), RoundValues(v.kwds),
                                  None),
            TRUE, NoEff)

get_upper_travel_limit(args) ==
    OneSend(Call("get_upper_travel_limit", args, <<>>, TRUE), "none",
            get_axis_value("SU", args), TRUE, NoEff)

reset_upper_travel_limits(args, wait) ==
    LET v == axis_check({"wait"}, args, <<>>, wait) IN
    OneSend(Call("reset_upper_travel_limits", args, <<>>, wait), v.fault,
            reset_setting("SU", IF v.args = <<>> THEN ordered_axes ELSE v.args),
            v.wait, NoEff)

set_axis_backlash(kwds, wait) ==
    LET v == axis_check({"wait"}, <<>>, kwds, wait) IN
    OneSend(Call("set_axis_backlash", <<>>, kwds, wait), v.fault,
            set_cmd_args_and_kwds("B", <<>>, v.kwds, None), v.wait, NoEff)

\* self._order_axes(axes)
\* `[ax for ax in self.ordered_axes if not ax.isnumeric()]`
lettered(motor_axes) == SelectSeq(motor_axes, LAMBDA ax : ~isnumeric(ax))

\* `[fw for fw in self.ordered_axes if fw.isnumeric()]`
filter_wheels(motor_axes) == SelectSeq(motor_axes, isnumeric)

\* (mutant) the axes are taken in the order the caller gave them.
order_axes_as_given(args) == Upper(args)

\* _order_axes
order_axes(args) == SelectSeq(ordered_axes, LAMBDA x : x \in Range(Upper(args)))

\* get_position: the axes asked for, in the order of the query.
position_axes(args) ==
    IF order_axes(args) = <<>> THEN lettered(ordered_axes) ELSE order_axes(args)

get_position(args) ==
    LET v == axis_check({}, args, <<>>, TRUE)
    IN  OneSend(Call("get_position", args, <<>>, TRUE), v.fault,
                Line(None, "W", Flags(Upper(position_axes(v.args)), ""), <<>>),
                TRUE, NoEff)

\* zip(p, q): as long as the shorter of the two.
ZipLen(p, q) == IF Len(p) < Len(q) THEN Len(p) ELSE Len(q)

\* What get_position returns from the reply `r` of its query:
\* `{k: v for k, v in zip(axes, [float(v) for v in reply.split()[1:]])}`
get_position_returns(args, r) ==
    LET a == position_axes(Upper(args))
        axes_positions == [i \in 1..(Len(split(r)) - 1) |-> float(split(r)[i + 1])]
        RECURSIVE dict(_, _)
        dict(i, m) == IF i > ZipLen(a, axes_positions) THEN m
                      ELSE dict(i + 1, (a[i] :> axes_positions[i]) @@ m)
    IN  dict(1, <<>>)

set_speed(kwds, wait) ==
    LET v == axis_check({"wait"}, <<>>, kwds, wait) IN
    OneSend(Call("set_speed", <<>>, kwds, wait), v.fault,
            set_cmd_args_and_kwds("S", <<>>, RoundValues(v.kwds), None),
            v.wait, NoEff)

get_speed(args) ==
    LET v == axis_check({}, args, <<>>, TRUE) IN
    OneSend(Call("get_speed", args, <<>>, TRUE), v.fault,
            get_axis_value("S", v.args), TRUE, NoEff)

bind_axis_to_joystick_input(kwds) ==
    LET v == axis_check({}, <<>>, kwds, TRUE) IN
    OneSend(Call("bind_axis_to_joystick_input", <<>>, kwds, TRUE), v.fault,
            set_cmd_args_and_kwds("J", <<>>, v.kwds, None), TRUE, NoEff)

get_joystick_axis_mapping(args) ==
    LET v == axis_check({}, args, <<>>, TRUE) IN
    OneSend(Call("get_joystick_axis_mapping", args, <<>>, TRUE), v.fault,
            get_axis_value("J", IF v.args = <<>> THEN ordered_axes ELSE v.args),
            TRUE, NoEff)

\* The line enable_joystick_inputs (suffix "+") or disable_joystick_inputs
\* (suffix "-") sends.
joystick_inputs_line(args, suffix) ==
    set_cmd_args_and_kwds(
        "J", Flags(Upper(IF args = <<>> THEN ordered_axes ELSE args), suffix),
        <<>>, None)

enable_joystick_inputs(args) ==
    LET v == axis_check({}, args, <<>>, TRUE) IN
    OneSend(Call("enable_joystick_inputs", args, <<>>, TRUE), v.fault,
            joystick_inputs_line(v.args, "+"), TRUE, NoEff)

disable_joystick_inputs(args) ==
    LET v == axis_check({}, args, <<>>, TRUE) IN
    OneSend(Call("disable_joystick_inputs", args, <<>>, TRUE), v.fault,
            joystick_inputs_line(v.args, "-"), TRUE, NoEff)

\* (mutant) every axis is taken for the first axis of its card.
ccaz_value_first_axis(polarity, card_index) == 22 + polarity

\* `ccaz_value = 22 + polarity.value + card_index*2`
ccaz_value(polarity, card_index) == 22 + polarity + card_index * 2

\* One CCA command per axis, then enable_joystick_inputs(*axes.keys()).
set_joystick_axis_polarity(kwds) ==
    LET v == axis_check({}, <<>>, kwds, TRUE)
        cca(i) == Item(Line(axis_to_card[v.kwds[i][1]][1], "CCA", <<>>,
                            <<<<"Z", ccaz_value(v.kwds[i][2],
                                                axis_to_card[v.kwds[i][1]][2])>>>>),
                       TRUE, NoEff)
        w == axis_check({}, Keys(v.kwds), <<>>, TRUE)
    IN  Begin(Call("set_joystick_axis_polarity", <<>>, kwds, TRUE), v.fault, Sess,
              IF v.fault # "none" THEN <<>>
              ELSE [i \in DOMAIN v.kwds |-> cca(i)]
                   \o <<Item(joystick_inputs_line(w.args, "+"), TRUE, NoEff)>>)

\* (mutant) the cache never answers.
cached_never(axis) == FALSE

\* functools.cache: whether a result is held for the axis.
cached(axis) == axis \in DOMAIN ticks_cache

\* functools.cache under axis_check: the key is the upper-cased axis, and a
\* result is kept once the query has returned.
get_encoder_ticks_per_mm(args) ==
    LET v == axis_check({}, args, <<>>, TRUE) IN
    Begin(Call("get_encoder_ticks_per_mm", args, <<>>, TRUE), v.fault, Sess,
          IF v.fault # "none" \/ cached(v.args[1]) THEN <<>>
          ELSE <<Item(Line(None, "CNTS", Flags(v.args, "?"), <<>>), TRUE,
                      Eff("cache", v.args))>>)

get_axis_id(args) ==
    LET v == axis_check({}, args, <<>>, TRUE) IN
    OneSend(Call("get_axis_id", args, <<>>, TRUE), v.fault,
            Line(None, "Z2B", Flags(Upper(v.args), "?"), <<>>), TRUE, NoEff)

set_axis_control_mode(kwds, wait) ==
    LET v == axis_check({"wait"}, <<>>, kwds, wait) IN
    OneSend(Call("set_axis_control_mode", <<>>, kwds, wait), v.fault,
            set_cmd_args_and_kwds("PM", <<>>, v.kwds, None), v.wait, NoEff)

get_axis_control_mode(args) ==
    LET v == axis_check({}, args, <<>>, TRUE) IN
    OneSend(Call("get_axis_control_mode", args, <<>>, TRUE), v.fault,
            get_axis_value("PM", v.args), TRUE, NoEff)

get_info(args) ==
    OneSend(Call("get_info", args, <<>>, TRUE), "none",
            Line(None, "INFO", Flags(Upper(args), ""), <<>>), TRUE, NoEff)

queue_buffered_move(kwds, wait) ==
    LET v == axis_check({"wait"}, <<>>, kwds, wait) IN
    OneSend(Call("queue_buffered_move", <<>>, kwds, wait), v.fault,
            set_cmd_args_and_kwds("LD", <<>>, v.kwds, None), v.wait, NoEff)

\* 1 << offset
RECURSIVE Bit(_)
Bit(i) == IF i = 0 THEN 1 ELSE 2 * Bit(i - 1)

\* (mutant) the bit of an axis is taken one place too high.
axis_byte_one_place_up(args) ==
    LET S == Range(args)
        RECURSIVE Sum(_)
        Sum(T) == IF T = {} THEN 0
                  ELSE LET a == CHOOSE x \in T : TRUE
                       IN  Bit(IndexOf(a)) + Sum(T \ {a})
    IN  Sum(S) % 65536

\* The axis byte: the bits of the given axes, or-ed.
axis_byte(args) ==
    LET S == Range(args)
        RECURSIVE Sum(_)
        Sum(T) == IF T = {} THEN 0
                  ELSE LET a == CHOOSE x \in T : TRUE
                       IN  Bit(IndexOf(a) - 1) + Sum(T \ {a})
    IN  Sum(S) % 65536

\* setup_ring_buffer is decorated with axis_check('mode', 'wait'): neither
\* keyword reaches the function, which runs with mode=TTL (0) and wait=True.
\* self._rb_axes is assigned before the command is sent.
setup_ring_buffer(args, mode, wait) ==
    LET v == axis_check({"mode", "wait"}, args, <<>>, wait)
        m == RingBufferMode("TTL")
    IN  Begin(MkCall("setup_ring_buffer", NoLine, args, <<>>, wait, {mode}),
              v.fault,
              IF v.fault # "none" THEN Sess ELSE [Sess EXCEPT !.rb_axes = v.args],
              IF v.fault # "none" THEN <<>>
              ELSE <<Item(set_cmd_args_and_kwds(
                              "RM", <<>>,
                              <<<<"X", 0>>, <<"Y", axis_byte(v.args)>>, <<"F", m>>>>,
                              None),
                          v.wait, NoEff)>>)

-----------------------------------------------------------------------------
(* The scan state machine.                                                 *)

\* The axis id the device reports for an axis (Z2B X?).
AxisId(a) == IndexOf(upper(a))

\* (mutant) every card is taken to have every module.
has_firmware_unchecked(card, module) == "none"

\* self._has_firmware(card, module)
has_firmware(card, module) ==
    IF module \notin card_modules[card] THEN "RuntimeError" ELSE "none"

\* (mutant) the scan operations run without a recorded card.
needs_scan_setup_unchecked(addr) == "none"

\* `if self._scan_card_addr is None: raise RuntimeError(...)`
needs_scan_setup(addr) == IF addr = None THEN "RuntimeError" ELSE "none"

\* (mutant) axes on different cards are accepted.
same_card_unchecked(cards) == "none"

\* `if len(cards) != 1: raise RuntimeError(...)`
same_card(cards) == IF Cardinality(cards) # 1 THEN "RuntimeError" ELSE "none"

\* setup_scan(fast_axis, slow_axis, pattern, wait): the card address and the
\* fast axis are recorded before the firmware check and before the two axis
\* id queries, which always wait for their reply.
setup_scan(fast, slow, pattern, wait) ==
    LET known == upper(fast) \in DOMAIN axis_to_card
                 /\ upper(slow) \in DOMAIN axis_to_card
        cards == {axis_to_card[upper(x)][1] : x \in {fast, slow}}
        card  == CHOOSE c \in cards : TRUE
        early == IF ~known THEN "KeyError" ELSE same_card(cards)
        s1    == [Sess EXCEPT !.scan_card_addr = card, !.scan_fast_axis = fast]
        fw    == has_firmware(card, "SCAN MODULE")
        v     == axis_check({}, <<fast>>, <<>>, TRUE)
    IN  Begin(MkCall("setup_scan", NoLine, <<fast, slow>>, <<>>, wait, {}),
              IF early # "none" THEN early ELSE FirstFault(fw, v.fault),
              IF early # "none" THEN Sess ELSE s1,
              IF early # "none" \/ fw # "none" \/ v.fault # "none" THEN <<>>
              ELSE <<Item(Line(None, "Z2B", <<<<upper(fast), "?">>>>, <<>>), TRUE,
                          NoEff),
                     Item(Line(None, "Z2B", <<<<upper(slow), "?">>>>, <<>>), TRUE,
                          NoEff),
                     Item(set_cmd_args_and_kwds(
                              "SCAN", <<>>,
                              <<<<"Y", AxisId(fast)>>, <<"Z", AxisId(slow)>>,
                                <<"F", pattern>>>>, card),
                          wait, NoEff)>>)

\* (mutant) only giving both parameters is refused.
scanr_args_both_only(opts) ==
    IF "scan_stop_mm" \in opts /\ "num_pixels" \in opts
    THEN "SyntaxError" ELSE "none"

\* scanr: exactly one of scan_stop_mm and num_pixels is given (opts holds the
\* names of the parameters that are not None).
scanr_args(opts) ==
    IF ("scan_stop_mm" \notin opts) = ("num_pixels" \notin opts)
    THEN "SyntaxError" ELSE "none"

\* scanr(scan_start_mm, pulse_interval_um, scan_stop_mm, num_pixels, ...)
scanr(opts, wait) ==
    LET f     == scanr_args(opts)
        g     == needs_scan_setup(scan_card_addr)
        fault == FirstFault(f, g)
        ax    == upper(scan_fast_axis)
        kw    == <<<<"X", 0>>, <<"Z", 1>>>>
                 \o (IF "scan_stop_mm" \in opts THEN <<<<"Y", 0>>>> ELSE <<>>)
                 \o (IF "num_pixels" \in opts THEN <<<<"F", 1>>>> ELSE <<>>)
                 \o <<<<"R", 67>>>>
    IN  Begin(MkCall("scanr", NoLine, <<>>, <<>>, wait, opts), fault, Sess,
              IF fault # "none" THEN <<>>
              ELSE (IF cached(ax) THEN <<>>
                    ELSE <<Item(Line(None, "CNTS", <<<<ax, "?">>>>, <<>>), TRUE,
                                Eff("cache", <<ax>>))>>)
                   \o <<Item(set_cmd_args_and_kwds("SCANR", <<>>, kw,
                                                   scan_card_addr),
                             wait, NoEff)>>)

\* scanv(scan_start_mm, scan_stop_mm, line_count, wait=wait), the overshoot
\* parameters left at None.
scanv(start, stop, lines, wait) ==
    LET fault == needs_scan_setup(scan_card_addr) IN
    Begin(MkCall("scanv", NoLine, <<>>, <<>>, wait, {}), fault, Sess,
          <<Item(set_cmd_args_and_kwds(
                     "SCANV", <<>>,
                     <<<<"X", round_mm(start)>>, <<"Y", round_mm(stop)>>,
                       <<"Z", lines>>>>,
                     scan_card_addr),
                 wait, NoEff)>>)

\* (mutant) start_scan keeps the recorded card and fast axis.
scan_kept(s) == s

\* `self._scan_card_addr = None; self._scan_fast_axis = None`
scan_cleared(s) == [s EXCEPT !.scan_card_addr = None, !.scan_fast_axis = None]

\* start_scan: the recorded card is cleared before the command is sent.
start_scan(wait) ==
    LET fault == needs_scan_setup(scan_card_addr) IN
    Begin(MkCall("start_scan", NoLine, <<>>, <<>>, wait, {}), fault,
          IF fault # "none" THEN Sess ELSE scan_cleared(Sess),
          <<Item(set_cmd_args_and_kwds("SCAN", <<<<"S", "">>>>, <<>>,
                                       scan_card_addr),
                 wait, NoEff)>>)

\* is_moving: one status query, which waits for its reply.
is_moving ==
    Begin(MkCall("is_moving", NoLine, <<>>, <<>>, TRUE, {}), "none", Sess,
          <<StatusQuery>>)

\* wait: `while self.is_moving(): pass`
wait_ ==
    Begin(MkCall("wait", NoLine, <<>>, <<>>, TRUE, {}), "none", Sess,
          <<StatusQuery>>)

stop_scan(wait) ==
    OneSend(MkCall("stop_scan", NoLine, <<>>, <<>>, wait, {}), "none",
            set_cmd_args_and_kwds("SCAN", <<<<"P", "">>>>, <<>>, None), wait,
            NoEff)

-----------------------------------------------------------------------------
(* The array scan.                                                         *)

\* The cards of the given axes: {self.axis_to_card[x][0] for x in axs}.
CardsOf(axs) == {axis_to_card[a][1] : a \in Range(axs)}

\* (mutant) with several candidate cards one of them is taken.
sole_card_unchecked(cards) == "none"

\* `if len(cards) != 1: raise RuntimeError("Cannot infer the card address")`
sole_card(cards) == IF Cardinality(cards) # 1 THEN "RuntimeError" ELSE "none"

\* The parameters of an array scan: points, spacings and rotation.
ArrayParams(xp, dx, yp, dy, theta) ==
    [x_points |-> xp, delta_x_mm |-> dx, y_points |-> yp, delta_y_mm |-> dy,
     theta_deg |-> theta]

\* setup_array_scan(x_points, delta_x_mm, y_points, delta_y_mm, theta_deg,
\* pattern=pattern, card_address=card_address, wait=wait), the start position
\* left at None: the card is recorded before the firmware check and before
\* the commands are sent.
setup_array_scan(p, pattern, card_address, wait) ==
    LET cards == CardsOf(<<"X", "Y">>)
        early == IF card_address = None THEN sole_card(cards) ELSE "none"
        card  == IF card_address = None THEN CHOOSE c \in cards : TRUE
                                        ELSE card_address
        s1    == [Sess EXCEPT !.array_scan_card_addr = card]
        fw    == has_firmware(card, "ARRAY MODULE")
    IN  Begin(MkCall("setup_array_scan", NoLine, <<card_address>>, <<>>, wait,
                     {}),
              FirstFault(early, fw),
              IF early # "none" THEN Sess ELSE s1,
              IF early # "none" \/ fw # "none" THEN <<>>
              ELSE (IF pattern = None THEN <<>>
                    ELSE <<Item(set_cmd_args_and_kwds(
                                    "SCAN", <<>>,
                                    <<<<"F", ScanPattern(pattern)>>>>, card),
                                wait, NoEff)>>)
                   \o <<Item(set_cmd_args_and_kwds("AH", <<>>, <<>>, card),
                             wait, NoEff),
                        Item(set_cmd_args_and_kwds(
                                 "AR", <<>>,
                                 <<<<"X", p.x_points>>, <<"Y", p.y_points>>,
                                   <<"Z", round_mm(p.delta_x_mm)>>,
                                   <<"F", round_mm(p.delta_y_mm)>>,
                                   <<"T", round_deg(p.theta_deg)>>>>,
                                 card),
                             wait, NoEff)>>)

\* (mutant) the array scan is started without a recorded card.
needs_array_setup_unchecked(addr) == "none"

\* `if self._array_scan_card_addr is None: raise RuntimeError(...)`
needs_array_setup(addr) == IF addr = None THEN "RuntimeError" ELSE "none"

\* (mutant) starting the array scan clears the scan state as well.
scan_state_cleared(s) ==
    [s EXCEPT !.array_scan_card_addr = None, !.scan_card_addr = None,
              !.scan_fast_axis = None]

\* `self._array_scan_card_addr = None`
array_scan_cleared(s) == [s EXCEPT !.array_scan_card_addr = None]

\* start_array_scan: the recorded card is cleared before the command is sent.
start_array_scan(wait) ==
    LET fault == needs_array_setup(array_scan_card_addr) IN
    Begin(MkCall("start_array_scan", NoLine, <<>>, <<>>, wait, {}), fault,
          IF fault # "none" THEN Sess ELSE array_scan_cleared(Sess),
          <<Item(set_cmd_args_and_kwds("AR", <<>>, <<>>, array_scan_card_addr),
                 wait, NoEff)>>)

-----------------------------------------------------------------------------
(* The ring buffer reset and the TTL pin modes.                            *)

\* reset_ring_buffer: self._rb_axes is emptied once the command has been sent.
reset_ring_buffer(wait) ==
    OneSend(MkCall("reset_ring_buffer", NoLine, <<>>, <<>>, wait, {}), "none",
            set_cmd_args_and_kwds("RM", <<>>, <<<<"X", 0>>>>, None), wait,
            Eff("rb_reset", <<>>))

\* `if not cards: raise RuntimeError(...)`, `if len(self._rb_axes) == 0: ...`
ttl_context(cards) == IF cards = {} THEN "RuntimeError" ELSE "none"

\* (mutant) the repeated move is taken to be on every axis of the box.
ttl_repeat_cards_all(last_axes) == CardsOf(ordered_axes)

\* The cards of the last relative move.
ttl_repeat_cards(last_axes) == CardsOf(last_axes)

\* (mutant) the buffered moves are taken to be on every axis of the box.
ttl_buffer_cards_all(buffer_axes) == CardsOf(ordered_axes)

\* The cards of the ring buffer axes.
ttl_buffer_cards(buffer_axes) == CardsOf(buffer_axes)

\* (mutant) an explicit card address is overridden by the card of X and Y.
ttl_explicit_card_ignored(card_address) == CardsOf(<<"X">>)

\* An explicit card address is used as it is.
ttl_explicit_card(card_address) == {card_address}

\* The card or cards set_ttl_pin_modes addresses and the exception it raises
\* when it cannot tell them.
ttl_target(in0_mode, card_address) ==
    IF in0_mode = "REPEAT_LAST_REL_MOVE" /\ card_address = None
    THEN LET cards == ttl_repeat_cards(last_rel_move_axes)
         IN  [fault |-> ttl_context(cards), cards |-> cards]
    ELSE IF in0_mode \in {"MOVE_TO_NEXT_REL_POSITION",
                          "MOVE_TO_NEXT_ABS_POSITION"} /\ card_address = None
    THEN LET cards == ttl_buffer_cards(rb_axes)
         IN  [fault |-> ttl_context(Range(rb_axes)), cards |-> cards]
    ELSE IF in0_mode = "ARRAY_MODE_MOVE_TO_NEXT_POSITION" /\ card_address = None
    THEN LET cards == CardsOf(<<"X", "Y">>)
             card  == CHOOSE c \in cards : TRUE
         IN  [fault |-> FirstFault(sole_card(cards),
                                   has_firmware(card, "ARRAY MODULE")),
              cards |-> {card}]
    ELSE IF card_address = None
    THEN [fault |-> "RuntimeError", cards |-> {}]
    ELSE [fault |-> "none", cards |-> ttl_explicit_card(card_address)]

\* Every order in which the cards of a set can be visited.
Orders(S) == {q \in [1..Cardinality(S) -> S] : Range(q) = S}

\* set_ttl_pin_modes(in0_mode, card_address=card_address, wait=wait), the
\* other parameters left at their defaults: one TTL command per card, the
\* cards of a set in the order the set yields them.
set_ttl_pin_modes(in0_mode, card_address, wait) ==
    LET tg == ttl_target(in0_mode, card_address)
        kw == (IF in0_mode = None THEN <<>>
               ELSE <<<<"X", TTLIn0Mode(in0_mode)>>>>) \o <<<<"F", 1>>>>
    IN  \E order \in Orders(IF tg.fault = "none" THEN tg.cards ELSE {}) :
            Begin(MkCall("set_ttl_pin_modes", NoLine,
                         <<in0_mode, card_address>>, <<>>, wait, {}),
                  tg.fault, Sess,
                  [i \in DOMAIN order |->
                      Item(set_cmd_args_and_kwds("TTL", <<>>, kw, order[i]),
                           wait, NoEff)])

\* get_ttl_pin_modes(card_address, wait=wait): the query string is handed
\* to _set_cmd_args_and_kwds as one positional argument.
get_ttl_pin_modes(card_address, wait) ==
    OneSend(MkCall("get_ttl_pin_modes", NoLine, <<card_address>>, <<>>, wait, {}),
            "none",
            set_cmd_args_and_kwds("TTL",
                                  Flags(<<"X", "Y", "Z", "F", "R", "T">>, "?"),
                                  <<>>, card_address),
            wait, NoEff)

-----------------------------------------------------------------------------
(* The device: one reply unit per command, in the order of the commands.   *)

\* wait() is answered "B" at most this many times: the motion ends.
MaxPolls == 3

\* The encoder ticks per mm the device may report for an axis.
DeviceTicks == {13, 27}

\* The device error codes the device is let to answer with.
DeviceFaults == {4}

\* The position the device reports for an axis.
DevicePosition(a) ==
    CASE a = "X" -> 12
      [] a = "Y" -> 34
      [] a = "Z" -> 56
      [] OTHER   -> 78

\* The positions of the axes `axs` as the text of a reply.
RECURSIVE PositionsText(_)
PositionsText(axs) ==
    IF axs = <<>> THEN <<>>
    ELSE <<" ">> \o Str(DevicePosition(axs[1])) \o PositionsText(Tail(axs))

\* The reply to a WHERE command lists the positions of the axes asked for,
\* in the order of the command or in the order of the hardware.
WhereReplies(axs) ==
    {ACK \o PositionsText(q) \o <<CR, LF>> :
        q \in {axs, SelectSeq(ordered_axes \o ordered_filter_wheels,
                              LAMBDA x : \E i \in DOMAIN axs : axs[i] = x)}}

\* The reply to a CNTS query: ":A X=13 ".
TicksReplies(axis) ==
    {ACK \o <<" ", axis, "=">> \o Str(n) \o <<" ", CR, LF>> : n \in DeviceTicks}

\* The status query is answered "B" (busy) or "N" (not busy), or with a text
\* that is neither.
DeviceReplies(cmd) ==
    (IF cmd.status THEN {<<"B", CR, LF>>, <<"N", CR, LF>>, <<"B", " ", CR, LF>>}
     ELSE IF cmd.where # <<>> THEN WhereReplies(cmd.where)
     ELSE IF cmd.cnts # "" THEN TicksReplies(cmd.cnts)
     ELSE {ACK \o <<" ", CR, LF>>})
    \cup {ErrorCodeValue(n) \o <<CR, LF>> : n \in DeviceFaults}

\* The answers the device does not give now: "B" once wait() has asked
\* MaxPolls times.
Withheld ==
    IF call.op = "wait" /\ Len(written) >= MaxPolls THEN {<<"B", CR, LF>>} ELSE {}

DeviceReply ==
    /\ inflight # <<>>
    /\ \E v \in DeviceReplies(Head(inflight)) \ Withheld :
          rx' = Append(rx, Unit(Head(inflight).own, v))
    /\ inflight' = Tail(inflight)
    /\ UNCHANGED <<skipped_replies, pc, call, todo, cur, written, nread, reply,
                   result, retval, value, ffRun, hist, session, topology,
                   decoder>>

-----------------------------------------------------------------------------
(* The state after construction.                                           *)

\* The topology __init__ resolves from the build configuration of a box with
\* the axes X and Y on card 31 (scan and array firmware) and Z on card 32.
Build == [ordered_axes |-> <<"X", "Y", "Z">>,
          ordered_filter_wheels |-> <<>>,
          axis_to_type |-> [a \in {"X", "Y", "Z"} |->
                               IF a = "Z" THEN "z" ELSE "x"],
          axis_to_card |-> [a \in {"X", "Y", "Z"} |->
                               CASE a = "X" -> <<"31", 0>>
                                 [] a = "Y" -> <<"31", 1>>
                                 [] a = "Z" -> <<"32", 0>>],
          card_modules |-> [c \in {"31", "32"} |->
                               IF c = "31" THEN {"SCAN MODULE", "ARRAY MODULE"}
                                           ELSE {}]]

\* The build configuration a box reports: the 'Motor Axes', 'Hex Addr' and
\* 'Axis Types' lists of the reply to BU X, and the module lines each card
\* answers its own BU X with.
BuildConfig(motor_axes, hex_addr, axis_types, modules) ==
    [motor_axes |-> motor_axes, hex_addr |-> hex_addr,
     axis_types |-> axis_types, modules |-> modules]

\* (mutant) the card index counts the axes of all cards.
get_axis_to_card_mapping_one_counter(motor_axes, hex_addr) ==
    [a \in Range(motor_axes) |->
        LET i == CHOOSE n \in DOMAIN motor_axes : motor_axes[n] = a
        IN  <<hex_addr[i], i - 1>>]

\* _get_axis_to_card_mapping: one counter per card address, starting at 0;
\* each axis in turn takes the counter of its card, which then goes up by 1.
get_axis_to_card_mapping(motor_axes, hex_addr) ==
    LET RECURSIVE loop(_, _, _)
        loop(i, m, curr_card_index) ==
            IF i > ZipLen(motor_axes, hex_addr) THEN m
            ELSE LET card_index == curr_card_index[hex_addr[i]] IN
                 loop(i + 1,
                      (motor_axes[i] :> <<hex_addr[i], card_index>>) @@ m,
                      [curr_card_index EXCEPT ![hex_addr[i]] = card_index + 1])
    IN  loop(1, <<>>, [c \in Range(hex_addr) |-> 0])

\* _get_axis_to_type_mapping
get_axis_to_type_mapping(motor_axes, axis_types) ==
    LET RECURSIVE loop(_, _)
        loop(i, m) ==
            IF i > ZipLen(motor_axes, axis_types) THEN m
            ELSE loop(i + 1, (motor_axes[i] :> axis_types[i]) @@ m)
    IN  loop(1, <<>>)

\* The cards __init__ queries for their modules, in order: the dict
\* comprehension calls _get_card_modules once for every axis.
card_module_queries(motor_axes, a2c) ==
    [i \in DOMAIN motor_axes |-> a2c[motor_axes[i]][1]]

\* The topology __init__ resolves from a build configuration.
resolve(cfg) ==
    LET a2c == get_axis_to_card_mapping(cfg.motor_axes, cfg.hex_addr) IN
    [ordered_axes          |-> lettered(cfg.motor_axes),
     ordered_filter_wheels |-> filter_wheels(cfg.motor_axes),
     axis_to_card          |-> a2c,
     axis_to_type          |-> get_axis_to_type_mapping(cfg.motor_axes,
                                                        cfg.axis_types),
     card_modules          |-> [c \in Range(card_module_queries(cfg.motor_axes,
                                                                a2c))
                                   |-> cfg.modules[c]]]

\* The axis types of a box of linear stages.
StageTypes(motor_axes) ==
    [i \in DOMAIN motor_axes |-> IF motor_axes[i] = "Z" THEN "z" ELSE "x"]

\* The topology of a box with the given axes, cards and modules per card.
MkBuild(motor_axes, hex_addr, modules) ==
    resolve(BuildConfig(motor_axes, hex_addr, StageTypes(motor_axes), modules))

\* Boxes with the axes X, Y, Z: X and Y on one card with both modules; X and
\* Y on two cards; X and Y on one card that has no array firmware.
Builds ==
    {Build,
     MkBuild(<<"X", "Y", "Z">>, <<"31", "32", "32">>,
             [c \in {"31", "32"} |->
                 IF c = "31" THEN {"SCAN MODULE", "ARRAY MODULE"}
                             ELSE {"ARRAY MODULE"}]),
     MkBuild(<<"X", "Y", "Z">>, <<"31", "31", "32">>,
             [c \in {"31", "32"} |->
                 IF c = "31" THEN {"SCAN MODULE"} ELSE {"ARRAY MODULE"}])}

\* A controller object exists: __init__ has returned.
Connected == DOMAIN axis_to_card # {}

\* TigerController(com_port) on a box that reports the build configuration
\* cfg: BU X, then the module query of the card of every axis; the topology
\* and the session state are assigned once the replies are in.  The call
\* record keeps the topology to assign and the configuration reported.
TigerController(cfg) ==
    LET t == resolve(cfg)
        cards == card_module_queries(cfg.motor_axes, t.axis_to_card)
    IN  /\ ~Connected
        /\ Begin(MkCall("__init__", NoLine, <<t, cfg>>, <<>>, TRUE, {}), "none",
                 NoSess,
                 <<Item(Line(None, "BU X", <<>>, <<>>), TRUE, NoEff)>>
                 \o [i \in DOMAIN cards |->
                        Item(set_cmd_args_and_kwds("BU X", <<>>, <<>>, cards[i]),
                             TRUE, NoEff)])

SetInit(s) ==
    /\ scan_card_addr = s.scan_card_addr
    /\ scan_fast_axis = s.scan_fast_axis
    /\ array_scan_card_addr = s.array_scan_card_addr
    /\ last_rel_move_axes = s.last_rel_move_axes
    /\ rb_axes = s.rb_axes
    /\ ticks_cache = s.ticks_cache

InitController(b) ==
    /\ skipped_replies = 0
    /\ inflight = <<>>
    /\ rx = <<>>
    /\ pc = "idle"
    /\ todo = <<>>
    /\ cur = NoItem
    /\ written = <<>>
    /\ nread = 0
    /\ reply = NoUnit
    /\ result = "none"
    /\ retval = NoUnit
    /\ value = None
    /\ ffRun = 0
    /\ hist = NoHist
    /\ SetInit(NoSess)
    /\ ordered_axes = b.ordered_axes
    /\ ordered_filter_wheels = b.ordered_filter_wheels
    /\ axis_to_card = b.axis_to_card
    /\ axis_to_type = b.axis_to_type
    /\ card_modules = b.card_modules
    /\ call = NoCall

InitEngine == InitController(Build)

Init ==
    /\ InitEngine
    /\ text = <<>>
    /\ raised = 0

\* The state before construction.
InitUnconnected ==
    /\ InitController(NoTopo)
    /\ text = <<>>
    /\ raised = 0

\* The state after construction on any of the boxes.
InitBuilds ==
    /\ \E b \in Builds : InitController(b)
    /\ text = <<>>
    /\ raised = 0

-----------------------------------------------------------------------------
(* The reply decoder on its own: check_reply_for_errors applied to a text. *)

\* Every text of at most n characters CR and LF.
RECURSIVE Terminators(_)
Terminators(n) ==
    IF n = 0 THEN {<<>>}
    ELSE Terminators(n - 1)
         \cup {t \o <<c>> : t \in {u \in Terminators(n - 1) : Len(u) = n - 1},
                              c \in {CR, LF}}

\* Reply bodies: the codes of the table, codes next to the table, codes
\* with a character missing or added, an acknowledgment, a status, and a
\* code as the last line of a reply of two lines.
DecoderBodies ==
    {<<":", "N", "-">> \o Str(n) : n \in 0..MaxCode}
    \cup {<<"N", "-">> \o Str(n) : n \in 0..MaxCode}
    \cup {<<":", "N", "-">> \o Str(n) \o <<" ">> : n \in 0..MaxCode}
    \cup {<<" ", ":", "N", "-">> \o Str(n) : n \in 0..MaxCode}
    \cup {<<"B", CR, ":", "N", "-">> \o Str(n) : n \in 0..MaxCode}
    \cup {<<>>, ACK, ACK \o <<" ">>, <<"B">>, <<"N">>}

DecoderInputs == {b \o t : b \in DecoderBodies, t \in Terminators(MaxTerm)}

InitDecoder ==
    /\ InitEngine
    /\ text \in DecoderInputs
    /\ raised = -1

\* check_reply_for_errors(text) is called.
CheckReply ==
    /\ raised = -1
    /\ raised' = check_reply_for_errors(text)
    /\ UNCHANGED <<text, engine, session, topology>>

SpecDecoder == InitDecoder /\ [][CheckReply]_vars

-----------------------------------------------------------------------------
(* The dict-of-floats decoding on its own: what _get_axis_value makes of a *)
(* reply.                                                                  *)

\* `reply = self.send(cmd_str).rstrip("\r\n").strip(ACK).split()`,
\* `{w[0].upper(): float(w[1]) for w in [c.split("=") for c in reply]}`:
\* str.strip takes its argument as a set of characters, here ':' and 'A'.
get_axis_value_returns(r) ==
    LET tokens == split(strip(rstrip(r, {CR, LF}), {ACK[i] : i \in DOMAIN ACK}))
        RECURSIVE dict(_, _)
        dict(i, m) ==
            IF i > Len(tokens) THEN m
            ELSE dict(i + 1, (Upper(split_0(tokens[i], "="))
                                 :> float(split_1(tokens[i], "="))) @@ m)
    IN  dict(1, <<>>)

\* A reply names at most this many axes.
MaxTokens == 2

\* The axes and the values of the tokens of a reply.
TokenAxes == {"A", "X", "Y"}
TokenValues == {2, 15}

\* The token lists: up to MaxTokens tokens <<axis, value>> of distinct axes.
TokenLists ==
    UNION {{q \in [1..n -> TokenAxes \X TokenValues] :
               \A i, j \in 1..n : q[i][1] = q[j][1] => i = j} : n \in 1..MaxTokens}

\* "X=15 Y=2"
RECURSIVE TokensText(_)
TokensText(q) ==
    IF q = <<>> THEN <<>>
    ELSE <<q[1][1], "=">> \o Str(q[1][2])
         \o (IF Len(q) > 1 THEN <<" ">> ELSE <<>>) \o TokensText(Tail(q))

\* The reply with the acknowledgment at the start or at the end.
AxisValueReply(q, ack_first) ==
    IF ack_first THEN ACK \o <<" ">> \o TokensText(q) \o <<CR, LF>>
                 ELSE TokensText(q) \o <<" ">> \o ACK \o <<CR, LF>>

InitAxisValue ==
    /\ InitEngine
    /\ text \in {AxisValueReply(q, b) : q \in TokenLists, b \in BOOLEAN}
    /\ raised = -1

\* The decoding is applied to the reply `text`.
DecodeAxisValue ==
    /\ raised = -1
    /\ raised' = 0
    /\ value' = get_axis_value_returns(text)
    /\ UNCHANGED <<skipped_replies, inflight, rx, pc, call, todo, cur, written,
                   nread, reply, result, retval, ffRun, hist>>
    /\ UNCHANGED <<text, session, topology>>

SpecAxisValue == InitAxisValue /\ [][DecodeAxisValue]_vars

\* Calls of send() only.
NextSend ==
    \/ \E line \in RawLines, wait \in BOOLEAN : send(line, wait)
    \/ ReadUnit
    \/ Return
    \/ DeviceReply

SpecSend == Init /\ [][NextSend]_vars

\* The device answers every command it has received, and
\* `self.ser.read_until(...)` returns once a reply unit is in the input
\* buffer of the port.
SpecSendLive == SpecSend /\ WF_vars(DeviceReply) /\ WF_vars(ReadUnit)

-----------------------------------------------------------------------------
(* Connection: the build configurations a box may report.                  *)

\* A build configuration has at most this many axes.
MaxAxes == 3

\* Lettered axes and a filter wheel.
AxisNames == {"X", "Y", "Z", "0"}
CardAddrs == {"31", "32"}

\* The firmware modules of the cards.
CardModules == [c \in CardAddrs |->
                   IF c = "31" THEN {"SCAN MODULE", "ARRAY MODULE"} ELSE {}]

\* Every order of up to MaxAxes distinct axes, on every choice of cards.
BuildConfigs ==
    UNION {{BuildConfig(m, h, StageTypes(m), CardModules) :
              m \in {q \in [1..n -> AxisNames] :
                        \A i, j \in 1..n : q[i] = q[j] => i = j},
              h \in [1..n -> CardAddrs]} : n \in 1..MaxAxes}

NextConnect ==
    \/ \E cfg \in BuildConfigs : TigerController(cfg)
    \/ \E w \in BOOLEAN : Connected /\ halt(w)
    \/ Connected /\ reset_lower_travel_limits(<<>>, TRUE)
    \/ ReadUnit
    \/ Return
    \/ DeviceReply

SpecConnect == InitUnconnected /\ [][NextConnect]_vars

-----------------------------------------------------------------------------
(* The operations that name axes: the arguments they are called with.      *)

\* Positional axes: none, a known axis, an unknown axis, two known axes.
ArgLists == {<<>>, <<"x">>, <<"q">>, <<"z", "X">>}
\* Keyword axes with their values.
KwLists == {<<<<"x", 12>>>>, <<<<"q", 12>>>>, <<<<"Y", 18>>, <<"z", 12>>>>}
\* Positional and keyword axes together: <<args, kwds>>.
MixLists == {<<<<"x">>, <<>>>>,
             <<<<>>, <<<<"y", 12>>>>>>,
             <<<<"x">>, <<<<"y", 18>>>>>>,
             <<<<"x">>, <<<<"X", 12>>>>>>,
             <<<<"X", "z">>, <<<<"x", 12>>>>>>,
             <<<<"q">>, <<<<"q", 12>>>>>>,
             <<<<"q">>, <<>>>>}
\* One axis.
OneAxis == {<<"x">>, <<"Z">>, <<"q">>}
\* Joystick polarities (JoystickPolarity values) by axis.
PolarityLists == {<<<<"y", 0>>>>, <<<<"x", 1>>, <<"z", 0>>>>, <<<<"q", 1>>>>}
\* RingBufferMode members given to setup_ring_buffer.
RingModes == {"TTL", "REPEATING"}

NextSetters ==
    \/ \E k \in KwLists, w \in BOOLEAN : move_relative(k, w)
    \/ \E k \in KwLists, w \in BOOLEAN : move_absolute(k, w)
    \/ \E a \in ArgLists, w \in BOOLEAN : home(a, w)
    \/ \E m \in MixLists, w \in BOOLEAN : set_home(m[1], m[2], w)
    \/ \E a \in ArgLists, w \in BOOLEAN : reset_home(a, w)
    \/ \E k \in KwLists, w \in BOOLEAN : set_position(k, w)
    \/ \E a \in ArgLists, w \in BOOLEAN : zero_in_place(a, w)
    \/ \E m \in MixLists, w \in BOOLEAN : set_lower_travel_limit(m[1], m[2], w)
    \/ \E a \in ArgLists, w \in BOOLEAN : reset_lower_travel_limits(a, w)
    \/ \E m \in MixLists, w \in BOOLEAN : set_upper_travel_limit(m[1], m[2], w)
    \/ \E a \in ArgLists, w \in BOOLEAN : reset_upper_travel_limits(a, w)
    \/ \E k \in KwLists, w \in BOOLEAN : set_axis_backlash(k, w)
    \/ \E k \in KwLists, w \in BOOLEAN : set_speed(k, w)
    \/ \E k \in KwLists, w \in BOOLEAN : set_axis_control_mode(k, w)
    \/ \E k \in KwLists, w \in BOOLEAN : queue_buffered_move(k, w)
    \/ \E a \in ArgLists, m \in RingModes, w \in BOOLEAN :
           setup_ring_buffer(a, m, w)

\* The same axes in several orders and letter cases.
PositionArgs ==
    ArgLists \cup {<<"X", "z">>, <<"x", "Z">>, <<"y", "x">>, <<"x", "y">>,
                   <<"z", "y", "x">>, <<"x", "X">>}

NextGetters ==
    \/ \E a \in ArgLists : get_home(a)
    \/ \E a \in ArgLists : get_lower_travel_limit(a)
    \/ \E a \in ArgLists : get_upper_travel_limit(a)
    \/ \E a \in PositionArgs : get_position(a)
    \/ \E a \in ArgLists : get_speed(a)
    \/ \E a \in ArgLists : get_joystick_axis_mapping(a)
    \/ \E a \in OneAxis : get_encoder_ticks_per_mm(a)
    \/ \E a \in OneAxis : get_axis_id(a)
    \/ \E a \in OneAxis : get_axis_control_mode(a)
    \/ \E a \in OneAxis : get_info(a)

NextJoystick ==
    \/ \E k \in KwLists : bind_axis_to_joystick_input(k)
    \/ \E k \in PolarityLists : set_joystick_axis_polarity(k)
    \/ \E a \in ArgLists : enable_joystick_inputs(a)
    \/ \E a \in ArgLists : disable_joystick_inputs(a)

NextAxes ==
    \/ NextSetters
    \/ NextGetters
    \/ NextJoystick
    \/ ReadUnit
    \/ Return
    \/ DeviceReply

SpecAxes == Init /\ [][NextAxes]_vars

-----------------------------------------------------------------------------
(* The scan operations.                                                    *)

\* Fast and slow axis of a scan.
ScanAxes == {<<"x", "y">>, <<"x", "z">>, <<"z", "z">>, <<"q", "x">>}
\* scanr: which of scan_stop_mm and num_pixels are given.
ScanrOpts == SUBSET {"scan_stop_mm", "num_pixels"}

NextScan ==
    \/ \E x \in ScanAxes, w \in BOOLEAN : setup_scan(x[1], x[2], 0, w)
    \/ \E o \in ScanrOpts, w \in BOOLEAN : scanr(o, w)
    \/ \E w \in BOOLEAN : scanv(0, 123456, 3, w)
    \/ \E w \in BOOLEAN : start_scan(w)
    \/ \E w \in BOOLEAN : stop_scan(w)
    \/ ReadUnit
    \/ Return
    \/ DeviceReply

SpecScan == Init /\ [][NextScan]_vars

-----------------------------------------------------------------------------
(* The scan and the array scan on the boxes of Builds.                     *)

\* Array scans: 2 x 2 points, spacings of 1.23456 mm and 0.5 mm, turned by
\* 0.1235 degrees.
ArrayInputs == {ArrayParams(2, 123456, 2, 50000, 1235)}
\* card_address: not given, or the address of a card.
CardInputs == {None, "31", "32"}

NextArray ==
    \/ \E x \in ScanAxes : setup_scan(x[1], x[2], 0, TRUE)
    \/ start_scan(TRUE)
    \/ \E p \in ArrayInputs, f \in {None, "RASTER"}, c \in CardInputs, w \in BOOLEAN :
           setup_array_scan(p, f, c, w)
    \/ \E w \in BOOLEAN : start_array_scan(w)
    \/ \E w \in BOOLEAN :
           set_ttl_pin_modes("ARRAY_MODE_MOVE_TO_NEXT_POSITION", None, w)
    \/ scanr({"num_pixels"}, TRUE)
    \/ scanv(0, 123456, 3, TRUE)
    \/ stop_scan(TRUE)
    \/ ReadUnit
    \/ Return
    \/ DeviceReply

SpecArray == InitBuilds /\ [][NextArray]_vars

-----------------------------------------------------------------------------
(* Relative moves, the ring buffer and the TTL pin modes on the boxes of   *)
(* Builds.                                                                 *)

\* in0_mode: not given, or a member of TTLIn0Mode.
TtlModes == {None, "OFF", "REPEAT_LAST_REL_MOVE", "MOVE_TO_NEXT_ABS_POSITION",
             "MOVE_TO_NEXT_REL_POSITION", "ARRAY_MODE_MOVE_TO_NEXT_POSITION"}

NextTtl ==
    \/ \E k \in KwLists : move_relative(k, TRUE)
    \/ \E a \in ArgLists, m \in RingModes : setup_ring_buffer(a, m, TRUE)
    \/ \E w \in BOOLEAN : reset_ring_buffer(w)
    \/ \E m \in TtlModes, c \in CardInputs, w \in BOOLEAN :
           set_ttl_pin_modes(m, c, w)
    \/ ReadUnit
    \/ Return
    \/ DeviceReply

SpecTtl == InitBuilds /\ [][NextTtl]_vars

-----------------------------------------------------------------------------
(* The operations that send several commands.                              *)

NextMulti ==
    \/ move_relative(<<<<"Y", 18>>, <<"z", 12>>>>, TRUE)
    \/ \E w \in BOOLEAN : set_ttl_pin_modes("REPEAT_LAST_REL_MOVE", None, w)
    \/ \E k \in PolarityLists : set_joystick_axis_polarity(k)
    \/ \E p \in ArrayInputs, c \in {None, "32"}, w \in BOOLEAN :
           setup_array_scan(p, "RASTER", c, w)
    \/ ReadUnit
    \/ Return
    \/ DeviceReply

SpecMulti == Init /\ [][NextMulti]_vars

-----------------------------------------------------------------------------
(* The status query: is_moving and wait after sends that did not wait.     *)

NextStatus ==
    \/ \E line \in RawLines : send(line, FALSE)
    \/ is_moving
    \/ wait_
    \/ ReadUnit
    \/ Return
    \/ DeviceReply

SpecStatus == Init /\ [][NextStatus]_vars

\* The device answers every command it has received, and a read of the port
\* returns once a reply unit is in its input buffer.
SpecStatusLive == SpecStatus /\ WF_vars(DeviceReply) /\ WF_vars(ReadUnit)

-----------------------------------------------------------------------------
(* The queries, halt, stop_scan and the TTL pin modes once a relative      *)
(* move, the ring buffer, a scan and an array scan have been set up.       *)

\* One known and one unknown axis.
QueryArgs == {<<"x">>, <<"q">>}
\* in0_mode: an input mode of either kind (plain, or replaying the last
\* relative move).
FrameTtlModes == {"OFF", "REPEAT_LAST_REL_MOVE"}

NextFrame ==
    \/ move_relative(<<<<"x", 12>>>>, TRUE)
    \/ setup_ring_buffer(<<"x">>, "TTL", TRUE)
    \/ setup_scan("x", "y", 0, TRUE)
    \/ \E p \in ArrayInputs : setup_array_scan(p, None, None, TRUE)
    \/ \E a \in QueryArgs : get_position(a)
    \/ get_speed(<<"x">>)
    \/ get_home(<<"x">>)
    \/ get_lower_travel_limit(<<"x">>)
    \/ get_upper_travel_limit(<<"x">>)
    \/ get_joystick_axis_mapping(<<"x">>)
    \/ \E a \in QueryArgs : get_axis_id(a)
    \/ get_ttl_pin_modes("31", TRUE)
    \/ is_moving
    \/ \E w \in BOOLEAN : halt(w)
    \/ stop_scan(TRUE)
    \/ \E m \in FrameTtlModes, c \in {None, "31"} :
           set_ttl_pin_modes(m, c, TRUE)
    \/ ReadUnit
    \/ Return
    \/ DeviceReply

SpecFrame == Init /\ [][NextFrame]_vars

-----------------------------------------------------------------------------
(* The encoder ticks per mm, asked for directly and by scanr.              *)

\* axis: known axes in either letter case, and an unknown one.
TicksArgs == {<<"x">>, <<"X">>, <<"y">>, <<"q">>}

NextTicks ==
    \/ \E f \in {"x", "y"} : setup_scan(f, IF f = "x" THEN "y" ELSE "x", 0, TRUE)
    \/ \E w \in BOOLEAN : scanr({"num_pixels"}, w)
    \/ \E a \in TicksArgs : get_encoder_ticks_per_mm(a)
    \/ ReadUnit
    \/ Return
    \/ DeviceReply

SpecTicks == Init /\ [][NextTicks]_vars

-----------------------------------------------------------------------------
(* Calls of send() mixed with high-level operations and with               *)
(* clear_incoming_message_queue.                                           *)

Next ==
    \/ \E line \in RawLines, wait \in BOOLEAN : send(line, wait)
    \/ clear_incoming_message_queue
    \/ \E w \in BOOLEAN : halt(w)
    \/ \E w \in BOOLEAN : stop_scan(w)
    \/ \E w \in BOOLEAN : move_relative(<<<<"x", 12>>>>, w)
    \/ \E k \in PolarityLists : set_joystick_axis_polarity(k)
    \/ ReadUnit
    \/ Return
    \/ DeviceReply

Spec == Init /\ [][Next]_vars

-----------------------------------------------------------------------------
(* Properties of the transaction engine.                                   *)

\* A reply unit that is a device error code followed by the reply terminator.
IsErrorUnit(u) ==
    u.some /\ \E n \in 1..NumErrorCodes : u.val = ErrorCodeValue(n) \o <<CR, LF>>

\* C1: after k fire-and-forget sends followed by one blocking send, the
\* blocking send that returns has read exactly k+1 reply units, has returned
\* the one read last (the k others were discarded), and leaves the
\* pending-reply counter at 0.
C1_DrainThenReturn ==
    (pc = "done" /\ call.op = "send" /\ call.wait /\ result = "ok" /\ call.k >= 0)
        => /\ nread = call.k + 1
           /\ retval = reply
           /\ retval.some
           /\ skipped_replies = 0

C1_Witness ==
    /\ pc = "done" /\ call.op = "send" /\ call.wait /\ result = "ok"
    /\ call.k = 3 /\ nread = 4 /\ skipped_replies = 0

\* C2: a send with wait=False writes its line exactly once, reads no reply
\* unit, adds exactly 1 to the pending-reply counter and returns no value;
\* every send has written its line before it reads any reply unit, also when
\* the counter is positive.
C2_FireAndForget ==
    /\ (call.op = "send" /\ ~call.wait)
          => /\ pc = "done" /\ result = "ok"
             /\ written = <<call.line>>
             /\ nread = 0
             /\ skipped_replies = call.sk0 + 1
             /\ ~retval.some
    /\ (call.op = "send" /\ (pc = "read" \/ nread > 0))
          => written = <<call.line>>

C2_Witness ==
    /\ call.op = "send" /\ ~call.wait /\ call.sk0 = 2
    /\ skipped_replies = 3 /\ written = <<call.line>> /\ nread = 0

\* C3: when the device answers every command once and in order, the value a
\* blocking send returns is the reply to the command that very send wrote.
C3_RepliesInOrder == retval.some => retval.own

C3_Witness ==
    /\ call.op = "send" /\ call.wait /\ result = "ok"
    /\ call.sk0 >= 2 /\ call.k < 0 /\ retval.some /\ retval.own

\* C4: the pending-reply counter is a non-negative integer in every state.
C4_CounterNonNegative == skipped_replies \in Nat

C4_Witness ==
    /\ pc = "done" /\ call.op = "move_relative" /\ result = "DeviceError"
    /\ call.sk0 >= 2 /\ nread >= 3 /\ skipped_replies = 0

\* C5: inside a blocking send, a reply unit that is a device error code ends
\* the call at once with the fault and without a value, whether the pending
\* counter was positive or zero when it was read; the call reads nothing more.
C5_FaultAborts ==
    IsErrorUnit(reply)
        => /\ pc = "done"
           /\ result = "DeviceError"
           /\ todo = <<>>
           /\ call.op = "send" => ~retval.some

C5_Witness ==
    /\ IsErrorUnit(reply) /\ result = "DeviceError"
    /\ skipped_replies > 0 /\ nread = 1

-----------------------------------------------------------------------------
(* Properties of the reply decoder.                                        *)

\* The text is the n-th error code followed by line terminators only.
IsCodeThenTerminators(t, n) ==
    \E j \in 0..Len(t) :
        /\ SubSeq(t, 1, j) = ErrorCodeValue(n)
        /\ \A i \in (j + 1)..Len(t) : t[i] \in {CR, LF}

\* C6: check_reply_for_errors raises a fault naming the code for a reply that
\* is an entry of the ErrorCodes table (':N-1' .. ':N-21') followed by line
\* terminators only, for every entry, and raises nothing for any other reply.
C6_DecoderRaisesExactlyOnCodes ==
    raised # -1 =>
        /\ \A n \in 1..NumErrorCodes :
               IsCodeThenTerminators(text, n) <=> raised = n
        /\ (~\E n \in 1..NumErrorCodes : IsCodeThenTerminators(text, n))
               => raised = 0

C6_Witness ==
    /\ raised = NumErrorCodes
    /\ text = ErrorCodeValue(NumErrorCodes) \o <<CR, LF>>

-----------------------------------------------------------------------------
(* Properties of the operations that name axes.                            *)

\* The exceptions a call raises before it sends anything.
UsageFaults == {"AssertionError", "SyntaxError", "RuntimeError", "KeyError"}

\* The operations that take a `wait` parameter and name axes.
WaitOps == {"move_relative", "move_absolute", "home", "set_home", "reset_home",
            "set_position", "zero_in_place", "set_speed", "set_axis_backlash",
            "set_lower_travel_limit", "set_upper_travel_limit",
            "reset_lower_travel_limits", "reset_upper_travel_limits",
            "setup_ring_buffer", "queue_buffered_move", "set_axis_control_mode"}

\* The call names an axis that is not a lettered axis of the topology.
NamesUnknownAxis ==
    \E a \in Range(call.args) \cup Range(Keys(call.kwds)) : upper(a) \notin axes

\* The call names an axis both positionally and as a keyword.
NamesAxisTwice ==
    \E a \in Range(call.args), k \in Range(Keys(call.kwds)) : upper(a) = upper(k)

\* The call has failed before it wrote anything and has changed nothing.
FailedEarly ==
    /\ pc = "done"
    /\ result \in UsageFaults
    /\ written = <<>>
    /\ nread = 0
    /\ skipped_replies = call.sk0
    /\ Sess = call.s0

\* C7: an operation that takes a wait parameter, called with wait=False,
\* writes its command fire-and-forget: it reads no reply unit and the
\* pending-reply counter grows by the number of commands written.
C7_WaitFalseFireAndForget ==
    (call.op \in WaitOps /\ ~call.wait /\ result \notin UsageFaults)
        => /\ pc = "done"
           /\ written # <<>>
           /\ nread = 0
           /\ skipped_replies = call.sk0 + Len(written)

\* C8: an operation given an axis name that is not a lettered axis of the
\* topology fails before any byte is written and leaves the pending-reply
\* counter and the session state as they were.
C8_UnknownAxisFailsEarly ==
    (call.op # "none" /\ NamesUnknownAxis) => FailedEarly

\* C9: set_home, set_lower_travel_limit and set_upper_travel_limit given the
\* same axis (compared case-insensitively) positionally and as a keyword fail
\* before any byte is written and change no state.
C9_RepeatedAxisFailsEarly ==
    (call.op \in {"set_home", "set_lower_travel_limit", "set_upper_travel_limit"}
     /\ NamesAxisTwice)
        => /\ FailedEarly
           /\ inflight = <<>>

C9_Witness ==
    /\ call.op = "set_lower_travel_limit"
    /\ call.args = <<"x">> /\ Keys(call.kwds) = <<"X">>
    /\ result = "SyntaxError" /\ written = <<>>

-----------------------------------------------------------------------------
(* Properties of the scan state machine.                                   *)

\* C10: scanr called with both scan_stop_mm and num_pixels, or with neither,
\* fails before any byte is written, whether a scan is configured or not, and
\* leaves the pending-reply counter and the scan session state unchanged.
C10_ScanrBothOrNeitherFails ==
    (call.op = "scanr"
     /\ ("scan_stop_mm" \in call.opts) = ("num_pixels" \in call.opts))
        => /\ FailedEarly
           /\ result = "SyntaxError"

C10_Witness ==
    /\ call.op = "scanr" /\ call.opts = {}
    /\ call.s0.scan_card_addr # None /\ call.sk0 > 0
    /\ result = "SyntaxError" /\ written = <<>>
    /\ scan_card_addr = call.s0.scan_card_addr

\* The call in progress is a scan operation that needs a recorded card, with
\* well-formed parameters.
NeedsScanSetup ==
    \/ call.op \in {"scanv", "start_scan"}
    \/ call.op = "scanr" /\ scanr_args(call.opts) = "none"

\* C11: while no card is recorded for the scan (no setup_scan has been called
\* since connection or since the last start_scan), scanr, scanv and start_scan
\* fail with the ordering fault, write nothing and change nothing.
C11_ScanNeedsSetup ==
    /\ ~hist.scan => scan_card_addr = None
    /\ (NeedsScanSetup /\ call.s0.scan_card_addr = None)
          => /\ FailedEarly
             /\ result = "RuntimeError"

C11_Witness ==
    /\ call.op = "scanv" /\ call.s0.scan_card_addr = None
    /\ ~hist.scan /\ call.sk0 > 0
    /\ result = "RuntimeError" /\ written = <<>>

\* C12: setup_scan and setup_array_scan record their session state only on
\* success: when the call has failed, the session state is what it was before
\* the call.
C12_SetupRecordsOnlyOnSuccess ==
    (call.op \in {"setup_scan", "setup_array_scan"} /\ pc = "done"
     /\ result # "ok")
        => Sess = call.s0

\* The call names two axes of the box that are on different cards.
AxesOnTwoCards ==
    /\ Len(call.args) = 2
    /\ \A i \in 1..2 : upper(call.args[i]) \in DOMAIN axis_to_card
    /\ axis_to_card[upper(call.args[1])][1] # axis_to_card[upper(call.args[2])][1]

\* C13: setup_scan with a fast and a slow axis on two different cards fails
\* with the configuration fault before any byte is written, the call ends
\* there, and the recorded card and fast axis stay what they were.
C13_ScanAxesOnOneCard ==
    (call.op = "setup_scan" /\ AxesOnTwoCards)
        => /\ FailedEarly
           /\ result = "RuntimeError"

C13_Witness ==
    /\ call.op = "setup_scan" /\ call.args = <<"x", "z">>
    /\ result = "RuntimeError" /\ written = <<>>
    /\ call.s0.scan_card_addr # None
    /\ scan_card_addr = call.s0.scan_card_addr
    /\ scan_fast_axis = call.s0.scan_fast_axis

\* C15: start_scan in the Configured state writes exactly one scan-start
\* command, addressed to the card the most recent setup_scan recorded, and
\* clears the recorded card and fast axis; a second start_scan with no
\* setup_scan in between fails with the ordering fault.  (setup_scan records
\* the card of its axes, and only setup_scan and start_scan change it.)
C15_StartScanOnceOnRecordedCard ==
    /\ [](/\ (call.op = "setup_scan" /\ ~AxesOnTwoCards
              /\ \A i \in 1..2 : upper(call.args[i]) \in DOMAIN axis_to_card)
                => /\ scan_card_addr = axis_to_card[upper(call.args[1])][1]
                   /\ scan_fast_axis = call.args[1]
          /\ (call.op = "start_scan" /\ call.s0.scan_card_addr # None)
                => /\ written = <<Line(call.s0.scan_card_addr, "SCAN",
                                       <<<<"S", "">>>>, <<>>)>>
                   /\ scan_card_addr = None
                   /\ scan_fast_axis = None
          /\ (call.op = "start_scan" /\ call.s0.scan_card_addr = None)
                => /\ FailedEarly
                   /\ result = "RuntimeError"
          /\ ~hist.scan => scan_card_addr = None)
    /\ [][scan_card_addr' # scan_card_addr
             => call'.op \in {"setup_scan", "start_scan"}]_vars

C15_Witness ==
    /\ call.op = "start_scan" /\ call.s0.scan_card_addr = "31"
    /\ result = "ok" /\ Len(written) = 1 /\ written[1].card = "31"
    /\ scan_card_addr = None /\ ~hist.scan

-----------------------------------------------------------------------------
(* Properties of the array scan and of the firmware check.                 *)

\* The card of X and Y when both are on one card.
XYCards == CardsOf(<<"X", "Y">>)

\* The call in progress addresses a card that lacks the firmware module the
\* operation needs.
LacksModule ==
    \/ /\ call.op = "setup_scan"
       /\ \A i \in 1..2 : upper(call.args[i]) \in DOMAIN axis_to_card
       /\ ~AxesOnTwoCards
       /\ "SCAN MODULE" \notin card_modules[axis_to_card[upper(call.args[1])][1]]
    \/ /\ call.op = "setup_array_scan"
       /\ IF call.args[1] = None
          THEN /\ Cardinality(XYCards) = 1
               /\ \A c \in XYCards : "ARRAY MODULE" \notin card_modules[c]
          ELSE "ARRAY MODULE" \notin card_modules[call.args[1]]
    \/ /\ call.op = "set_ttl_pin_modes"
       /\ call.args = <<"ARRAY_MODE_MOVE_TO_NEXT_POSITION", None>>
       /\ Cardinality(XYCards) = 1
       /\ \A c \in XYCards : "ARRAY MODULE" \notin card_modules[c]

C16_ArrayScanCard ==
    call.op = "setup_array_scan"
        => /\ (call.args[1] = None /\ Cardinality(XYCards) # 1)
                => /\ FailedEarly
                   /\ result = "RuntimeError"
                   /\ array_scan_card_addr = call.s0.array_scan_card_addr
           /\ (call.args[1] = None /\ Cardinality(XYCards) = 1)
                => /\ array_scan_card_addr \in XYCards
                   /\ \A i \in DOMAIN written : written[i].card \in XYCards
           /\ call.args[1] # None
                => /\ array_scan_card_addr = call.args[1]
                   /\ \A i \in DOMAIN written : written[i].card = call.args[1]
                   /\ "ARRAY MODULE" \in card_modules[call.args[1]]
                        => /\ result # "RuntimeError"
                           /\ written # <<>>
                           /\ (pc = "done" /\ result = "ok")
                                => /\ Len(written) \in 2..3
                                   /\ written[Len(written)].cmd = "AR"

C16_Witness ==
    /\ call.op = "setup_array_scan" /\ call.args[1] = "32"
    /\ Cardinality(XYCards) = 2
    /\ pc = "done" /\ result = "ok" /\ Len(written) = 3
    /\ array_scan_card_addr = "32"

\* C17: start_array_scan fails with the ordering fault and writes nothing
\* unless a setup_array_scan was made since connection and since the last
\* start_array_scan; when it proceeds it writes one array-start command,
\* addressed to the card setup_array_scan recorded, and clears the
\* recorded card.
C17_ArrayStartNeedsSetup ==
    /\ ~hist.array => array_scan_card_addr = None
    /\ call.op = "start_array_scan"
        => IF call.s0.array_scan_card_addr = None
           THEN FailedEarly /\ result = "RuntimeError"
           ELSE /\ written = <<Line(call.s0.array_scan_card_addr, "AR",
                                    <<>>, <<>>)>>
                /\ array_scan_card_addr = None

C17_Witness ==
    /\ call.op = "start_array_scan" /\ call.s0.array_scan_card_addr = "32"
    /\ pc = "done" /\ result = "ok" /\ Len(written) = 1
    /\ written[1].card = "32" /\ array_scan_card_addr = None

-----------------------------------------------------------------------------
(* Properties of set_ttl_pin_modes.                                        *)

\* The cards the call in progress has written a command to, in order.
WrittenCards == [i \in DOMAIN written |-> written[i].card]

\* The call in progress has written TTL commands only, at most one per
\* card, to cards of the set S only, and to each card of S once it has
\* returned normally.
OneTtlPerCardOf(S) ==
    /\ result # "RuntimeError"
    /\ \A i \in DOMAIN written : written[i].cmd = "TTL"
    /\ \A i, j \in DOMAIN written : WrittenCards[i] = WrittenCards[j] => i = j
    /\ Range(WrittenCards) \subseteq S
    /\ written # <<>>
    /\ (pc = "done" /\ result = "ok") => Range(WrittenCards) = S

\* C18: set_ttl_pin_modes in the repeat-last-relative-move mode with no
\* card_address fails with the missing-context fault, writing nothing, when
\* no relative move was made in the session; after a relative move on the
\* axes S it writes exactly one TTL command per distinct card of an axis of
\* S and none to another card.
C18_TtlRepeatCards ==
    (call.op = "set_ttl_pin_modes"
       /\ call.args = <<"REPEAT_LAST_REL_MOVE", None>>)
        => IF hist.rel = <<>>
           THEN FailedEarly /\ result = "RuntimeError"
           ELSE OneTtlPerCardOf(CardsOf(hist.rel))

C18_Witness ==
    /\ call.op = "set_ttl_pin_modes"
    /\ call.args = <<"REPEAT_LAST_REL_MOVE", None>>
    /\ hist.rel = <<"Y", "Z">> /\ CardsOf(hist.rel) = {"31", "32"}
    /\ pc = "done" /\ result = "ok" /\ Len(written) = 2

\* C19: set_ttl_pin_modes in a move-to-next-buffered-position mode with no
\* card_address fails, writing nothing, whenever the ring-buffer axes are
\* empty, as they are when setup_ring_buffer was never called or the ring
\* buffer was reset after the last setup_ring_buffer; otherwise it writes
\* exactly one TTL command per distinct card of a ring-buffer axis.
C19_TtlBufferCards ==
    /\ ~hist.rb => rb_axes = <<>>
    /\ (call.op = "set_ttl_pin_modes"
          /\ call.args[1] \in {"MOVE_TO_NEXT_ABS_POSITION",
                               "MOVE_TO_NEXT_REL_POSITION"}
          /\ call.args[2] = None)
        => IF rb_axes = <<>>
           THEN FailedEarly /\ result = "RuntimeError"
           ELSE OneTtlPerCardOf(CardsOf(rb_axes))

C19_Witness ==
    /\ call.op = "set_ttl_pin_modes"
    /\ call.args = <<"MOVE_TO_NEXT_REL_POSITION", None>>
    /\ rb_axes = <<"Z", "X">> /\ CardsOf(rb_axes) = {"31", "32"}
    /\ pc = "done" /\ result = "ok" /\ Len(written) = 2

\* C20: set_ttl_pin_modes with no card_address writes, in the array mode,
\* exactly one TTL command to the card of X and Y (which has the array
\* module) and fails with nothing written when X and Y are on different
\* cards; in a mode without an inference rule, or with no input mode, it
\* fails with nothing written; with a card_address it writes exactly one
\* TTL command to that card whatever the session state.
C20_TtlArrayDefaultExplicit ==
    call.op = "set_ttl_pin_modes"
        => /\ call.args = <<"ARRAY_MODE_MOVE_TO_NEXT_POSITION", None>>
                => IF Cardinality(XYCards) # 1
                   THEN FailedEarly /\ result = "RuntimeError"
                   ELSE (\A c \in XYCards : "ARRAY MODULE" \in card_modules[c])
                            => /\ OneTtlPerCardOf(XYCards)
                               /\ Len(written) = 1
           /\ (call.args[1] \in {None, "OFF"} /\ call.args[2] = None)
                => FailedEarly /\ result = "RuntimeError"
           /\ call.args[2] # None
                => /\ OneTtlPerCardOf({call.args[2]})
                   /\ Len(written) = 1

C20_Witness ==
    /\ call.op = "set_ttl_pin_modes"
    /\ call.args = <<"REPEAT_LAST_REL_MOVE", "32">>
    /\ hist.rel = <<>> /\ rb_axes = <<>>
    /\ pc = "done" /\ result = "ok"
    /\ WrittenCards = <<"32">>

-----------------------------------------------------------------------------
(* Properties of the connection and of the topology.                       *)

\* The construction in progress has returned normally.
HasConnected == call.op = "__init__" /\ pc = "done" /\ result = "ok"

\* The position of the axis a in the hardware order reported.
HardwareIndex(m, a) == CHOOSE i \in DOMAIN m : m[i] = a

\* q lists exactly the elements of S, each once, in the order of m.
ListsInOrder(q, S, m) ==
    /\ Range(q) = S
    /\ Len(q) = Cardinality(S)
    /\ \A i, j \in DOMAIN q :
          i < j => HardwareIndex(m, q[i]) < HardwareIndex(m, q[j])

\* C21: for every build configuration the axis-to-card map gives the j-th
\* axis (from 0, in hardware order) seen on a card the card index j; the
\* filter-wheel list holds exactly the numeric axis names and the lettered
\* list and set exactly the others, both in hardware order.
C21_TopologyResolved ==
    HasConnected
        => LET m == call.args[2].motor_axes
               h == call.args[2].hex_addr
           IN  /\ DOMAIN axis_to_card = Range(m)
               /\ \A i \in DOMAIN m :
                     axis_to_card[m[i]]
                         = <<h[i], Cardinality({j \in 1..(i - 1) : h[j] = h[i]})>>
               /\ ListsInOrder(ordered_filter_wheels,
                               {a \in Range(m) : isnumeric(a)}, m)
               /\ ListsInOrder(ordered_axes,
                               {a \in Range(m) : ~isnumeric(a)}, m)
               /\ axes = {a \in Range(m) : ~isnumeric(a)}

C21_Witness ==
    /\ HasConnected
    /\ call.args[2].motor_axes = <<"Z", "0", "X">>
    /\ call.args[2].hex_addr = <<"32", "31", "32">>
    /\ axis_to_card["X"] = <<"32", 1>>
    /\ ordered_axes = <<"Z", "X">>
    /\ ordered_filter_wheels = <<"0">>

\* The module queries the construction has written.
ModuleQueries == SelectSeq(written, LAMBDA l : l.cmd = "BU X" /\ l.card # None)

\* C22: during connection the firmware-module query is written once per
\* distinct card address: with N axes on K cards, K queries.
C22_ModuleQueryPerCard ==
    HasConnected
        => Len(ModuleQueries) = Cardinality(Range(call.args[2].hex_addr))

\* C23: get_position returns the same result for every order and letter
\* case of the same axes: the query names the axes in hardware order, the
\* i-th value of the reply goes to the i-th of them, and so each axis asked
\* for gets its own position.
C23_PositionInHardwareOrder ==
    (call.op = "get_position" /\ pc = "done" /\ result = "ok")
        => LET req == IF call.args = <<>> THEN axes
                                          ELSE Range(Upper(call.args))
               q == [i \in DOMAIN written[1].args |-> written[1].args[i][1]]
               vals == split(retval.val)
               ret == get_position_returns(call.args, retval.val)
           IN  /\ Len(written) = 1
               /\ ListsInOrder(q, req, ordered_axes)
               /\ DOMAIN ret = req
               /\ \A i \in DOMAIN q : ret[q[i]] = float(vals[i + 1])
               /\ \A a \in req : ret[a] = DevicePosition(a)

C23_Witness ==
    /\ call.op = "get_position" /\ pc = "done" /\ result = "ok"
    /\ call.args = <<"z", "X">>
    /\ written = <<Line(None, "W", <<<<"X", "">>, <<"Z", "">>>>, <<>>)>>
    /\ get_position_returns(call.args, retval.val)
           = [a \in {"X", "Z"} |-> IF a = "X" THEN 12 ELSE 56]

-----------------------------------------------------------------------------
(* Properties of the ring buffer setup.                                    *)

\* Bit i (from 0) of the number n.
BitOf(n, i) == (n \div Bit(i)) % 2

\* The call in progress is a setup_ring_buffer that got past its axis check.
RingBufferSetUp ==
    /\ call.op = "setup_ring_buffer"
    /\ \A i \in DOMAIN call.args : upper(call.args[i]) \in axes

C25_RingBufferModeWritten ==
    (RingBufferSetUp /\ written # <<>>)
        => \A m \in call.opts : written[1].kw[3] = <<"F", RingBufferMode(m)>>

-----------------------------------------------------------------------------
(* Properties of the encoding of flags.                                    *)

SetFlagOps == {"set_home", "set_lower_travel_limit", "set_upper_travel_limit"}
ResetFlagOps == {"reset_home", "reset_lower_travel_limits",
                 "reset_upper_travel_limits"}

\* C26: set_home, set_lower_travel_limit and set_upper_travel_limit encode
\* every positional axis as the flag AXIS+ and every keyword axis as
\* AXIS=value; reset_home and the reset_*_travel_limits operations encode
\* every axis as AXIS-.
C26_FlagSuffixes ==
    written # <<>>
        => /\ call.op \in SetFlagOps
                => /\ written[1].args
                          = [i \in DOMAIN call.args |-> <<upper(call.args[i]), "+">>]
                   /\ Keys(written[1].kw) = Upper(Keys(call.kwds))
           /\ call.op \in ResetFlagOps
                => /\ \A i \in DOMAIN written[1].args : written[1].args[i][2] = "-"
                   /\ written[1].kw = <<>>

-----------------------------------------------------------------------------
(* Properties of the session state.                                        *)

\* C27 as stated: after a move_relative that has written its command,
\* last_relative_move_axes holds the axes of that command.
C27_LastMoveIsLastWritten ==
    (call.op = "move_relative" /\ pc = "done" /\ written # <<>>)
        => last_rel_move_axes = Keys(written[Len(written)].kw)

\* C27: in every state last_relative_move_axes holds the axes of the most
\* recent move_relative that returned normally (none before the first):
\* each such move replaces them, and no other operation, nor a move the
\* device answers with a fault, changes them.
C27_LastMoveIsLastReturned ==
    /\ [](last_rel_move_axes = hist.rel)
    /\ [][last_rel_move_axes' # last_rel_move_axes
             => /\ call'.op = "move_relative"
                /\ result' = "ok"
                /\ last_rel_move_axes' = Upper(Keys(call'.kwds))]_vars

C27_Witness ==
    /\ call.op = "move_relative" /\ pc = "done" /\ result = "ok"
    /\ call.s0.last_rel_move_axes = <<"X">>
    /\ last_rel_move_axes = <<"Y", "Z">>

ScanOps == {"setup_scan", "scanr", "scanv", "start_scan", "stop_scan"}
ArrayScanOps == {"setup_array_scan", "start_array_scan"}

\* C28: the scan and the array-scan state machines are independent:
\* setup_array_scan and start_array_scan never change scan_card_address or
\* scan_fast_axis, and setup_scan, scanr, scanv, start_scan and stop_scan
\* never change array_scan_card_address.
C28_ScanAndArrayIndependent ==
    [][/\ call'.op \in ArrayScanOps
           => /\ scan_card_addr' = scan_card_addr
              /\ scan_fast_axis' = scan_fast_axis
       /\ call'.op \in ScanOps
           => array_scan_card_addr' = array_scan_card_addr]_vars

C28_Witness ==
    /\ call.op = "start_array_scan" /\ pc = "done" /\ result = "ok"
    /\ call.s0.array_scan_card_addr = "32" /\ array_scan_card_addr = None
    /\ scan_card_addr = "31" /\ scan_fast_axis = "x"

\* C29: after connection no operation changes the topology: the
\* hardware-order axis list (and with it the lettered axis set), the
\* filter-wheel list, the axis-to-card map, the axis-to-type map and the
\* per-card module cache stay as __init__ resolved them.
C29_TopologyFixed ==
    [][Connected => /\ ordered_axes' = ordered_axes
                    /\ ordered_filter_wheels' = ordered_filter_wheels
                    /\ axis_to_card' = axis_to_card
                    /\ axis_to_type' = axis_to_type
                    /\ card_modules' = card_modules]_vars

C29_Witness ==
    /\ Connected /\ ordered_filter_wheels = <<"0">>
    /\ call.op = "reset_lower_travel_limits" /\ pc = "done" /\ result = "ok"
    /\ call.sk0 > 0

-----------------------------------------------------------------------------
(* Properties of the propagation of faults.                                *)

Faults == UsageFaults \cup {"DeviceError"}

-----------------------------------------------------------------------------
(* The status query.                                                       *)

Busy    == <<"B", CR, LF>>
NotBusy == <<"N", CR, LF>>

\* The unit read last answers the status query of the call in progress.
OwnStatusReply == reply.some /\ reply.own

\* C31: is_moving returns True exactly when the reply to its own status
\* query, read after every pending skipped reply, is 'B', False exactly
\* when it is 'N', and raises for any other reply; wait returns only after
\* a status query answered 'N', and ends once the device answers 'N'.
C31_StatusQuery ==
    /\ []((pc = "done" /\ call.op = "is_moving")
            => /\ written = <<StatusQuery.line>>
               /\ OwnStatusReply => nread = call.sk0 + 1
               /\ result = "ok" => OwnStatusReply
               /\ (result = "ok" /\ value = "True") <=>
                      (OwnStatusReply /\ reply.val = Busy)
               /\ (result = "ok" /\ value = "False") <=>
                      (OwnStatusReply /\ reply.val = NotBusy)
               /\ result = "ok" => value \in {"True", "False"})
    /\ []((pc = "done" /\ call.op = "wait" /\ result = "ok")
            => /\ OwnStatusReply /\ reply.val = NotBusy
               /\ nread = call.sk0 + Len(written)
               /\ \A i \in DOMAIN written : written[i] = StatusQuery.line)
    /\ (call.op = "wait" /\ pc = "read") ~> (call.op = "wait" /\ pc = "done")

C31_Witness ==
    /\ pc = "done" /\ call.op = "wait" /\ result = "ok"
    /\ call.sk0 >= 2 /\ Len(written) = 3 /\ reply.val = NotBusy

-----------------------------------------------------------------------------
(* Rounding.                                                               *)

\* The operations on axes that take values in millimeters.
MmOps == {"set_home", "set_lower_travel_limit", "set_upper_travel_limit",
          "set_speed"}

\* v is x rounded to 4 decimal places, both counted in hundred-thousandths.
IsRoundedMm(v, x) == v % 10 = 0 /\ v - x \in -5..5

\* C32: every millimeter value a high-level operation writes is the value
\* given rounded to 4 decimal places.
C32_ValuesRounded ==
    (call.op \in MmOps /\ written # <<>>)
        => /\ Len(written[1].kw) = Len(call.kwds)
           /\ \A i \in DOMAIN call.kwds :
                  IsRoundedMm(written[1].kw[i][2], call.kwds[i][2])

-----------------------------------------------------------------------------
(* The pending-reply counter.                                              *)

\* C33: between calls, after any sequence of sends, those that ended with a
\* device fault included, the pending-reply counter equals the number of
\* commands written whose reply has not been read from the port.
C33_CounterIsUnread == pc # "read" => skipped_replies = Outstanding

C33_Witness ==
    /\ pc = "done" /\ call.op = "send" /\ call.wait /\ result = "DeviceError"
    /\ call.sk0 = 3 /\ nread = 2 /\ skipped_replies = 2 /\ Outstanding = 2

\* C34: a blocking send never waits for more reply units than the commands
\* written will produce, and it returns or raises in the end, whatever
\* sends and faults came before it.
C34_BlockingSendEnds ==
    /\ [](pc = "read" => skipped_replies + 1 <= Outstanding)
    /\ (pc = "read") ~> (pc = "done")

C34_Witness ==
    /\ pc = "done" /\ call.op = "send" /\ call.wait /\ result = "ok"
    /\ call.k < 0 /\ call.sk0 = 3 /\ nread = 4

\* C35: the first blocking send after clear_incoming_message_queue returns
\* the reply to its own command, also when replies to earlier commands were
\* still to arrive when the queue was cleared.
C35_ClearThenOwnReply ==
    (pc = "done" /\ call.op = "send" /\ call.wait /\ result = "ok"
     /\ call.h0.clear)
        => retval.some /\ retval.own

-----------------------------------------------------------------------------
(* The joystick polarity.                                                  *)

\* The number of axes before a on the card of a, in hardware order.
IndexOnCard(a) ==
    Cardinality({i \in 1..(IndexOf(a) - 1) :
                    axis_to_card[ordered_axes[i]][1] = axis_to_card[a][1]})

\* The CCA command of the i-th axis given to the call in progress.
PolarityLine(i) ==
    LET a == upper(call.kwds[i][1]) IN
    Line(axis_to_card[a][1], "CCA", <<>>,
         <<<<"Z", 22 + call.kwds[i][2] + 2 * IndexOnCard(a)>>>>)

\* The joystick-enable command naming the axes given to the call in progress.
EnableLine ==
    Line(None, "J", [i \in DOMAIN call.kwds |-> <<upper(call.kwds[i][1]), "+">>],
         <<>>)

\* C36: set_joystick_axis_polarity writes one CCA command per given axis, to
\* the card of the axis and with Z = 22 + polarity + 2 * (index of the axis
\* within its card), and after all of them one joystick-enable command
\* naming the given axes.
C36_JoystickPolarity ==
    call.op = "set_joystick_axis_polarity"
        => /\ Len(written) <= Len(call.kwds) + 1
           /\ \A i \in DOMAIN written :
                  written[i] = IF i <= Len(call.kwds) THEN PolarityLine(i)
                                                      ELSE EnableLine
           /\ nread >= Len(written) - 1
           /\ (pc = "done" /\ result = "ok") => Len(written) = Len(call.kwds) + 1

C36_Witness ==
    /\ call.op = "set_joystick_axis_polarity" /\ pc = "done" /\ result = "ok"
    /\ Len(written) = 3 /\ call.sk0 = 0
    /\ written[1] = Line("31", "CCA", <<>>, <<<<"Z", 23>>>>)
    /\ written[2] = Line("32", "CCA", <<>>, <<<<"Z", 22>>>>)
    /\ written[3] = Line(None, "J", <<<<"X", "+">>, <<"Z", "+">>>>, <<>>)

-----------------------------------------------------------------------------
(* The dict-of-floats decoding.                                            *)

\* The dict with one entry per token: the axis name and the value.
DictOfTokens(q) == [k \in {<<q[i][1]>> : i \in DOMAIN q} |->
                       LET i == CHOOSE j \in DOMAIN q : q[j][1] = k[1] IN q[i][2]]

\* C37: for every reply of AXIS=value tokens with the acknowledgment at the
\* start or at the end, and for every axis letter, 'A' included, the decoding
\* returns the dict of the axis names and values of the tokens.
C37_AxisValueDecoded ==
    raised = 0 =>
        \A q \in TokenLists, b \in BOOLEAN :
            text = AxisValueReply(q, b) => value = DictOfTokens(q)

-----------------------------------------------------------------------------
(* The operations that leave the session state alone.                      *)

QueryOps == {"get_position", "get_speed", "get_home", "get_lower_travel_limit",
             "get_upper_travel_limit", "get_joystick_axis_mapping",
             "get_axis_id", "get_ttl_pin_modes", "is_moving"}

\* C38: the queries, halt, stop_scan and set_ttl_pin_modes leave
\* last_rel_move_axes, rb_axes, scan_card_addr, scan_fast_axis and
\* array_scan_card_addr as they were, in every step from the call to its
\* return or its exception.
C38_QueriesLeaveSession ==
    [][(call'.op \in QueryOps \cup {"halt", "stop_scan", "set_ttl_pin_modes"})
          => UNCHANGED <<last_rel_move_axes, rb_axes, scan_card_addr,
                         scan_fast_axis, array_scan_card_addr>>]_vars

C38_Witness ==
    /\ pc = "done" /\ call.op = "set_ttl_pin_modes" /\ result = "DeviceError"
    /\ last_rel_move_axes = <<"X">> /\ rb_axes = <<"X">>
    /\ scan_card_addr = "31" /\ scan_fast_axis = "x"
    /\ array_scan_card_addr = "31"

-----------------------------------------------------------------------------
(* The cache of the encoder ticks per mm.                                  *)

\* The call in progress needs the encoder ticks of an axis: a direct call
\* that passed the axis check, or a scanr that passed its own checks.
AsksTicks ==
    \/ call.op = "get_encoder_ticks_per_mm"
           /\ upper(call.args[1]) \in DOMAIN axis_to_card
    \/ call.op = "scanr" /\ call.s0.scan_card_addr # None
           /\ scanr_args(call.opts) = "none"

\* The axis, upper-cased, that the call in progress needs the ticks of.
TicksAxis ==
    IF call.op = "scanr" THEN upper(call.s0.scan_fast_axis)
    ELSE upper(call.args[1])

\* The CNTS queries among the commands the call in progress has written.
TicksQueries == SelectSeq(written, LAMBDA l : l.cmd = "CNTS")

\* C39: once a CNTS query for an axis has returned, a later call of
\* get_encoder_ticks_per_mm for that axis in any letter case writes nothing,
\* reads nothing and returns the result of that first query, and scanr
\* writes no CNTS query for it; a call for an axis with no returned query
\* writes one (so a query that raised is asked again).
C39_TicksQueriedOnce ==
    AsksTicks =>
       /\ TicksAxis \in DOMAIN call.h0.ticks =>
              /\ TicksQueries = <<>>
              /\ call.op = "get_encoder_ticks_per_mm" =>
                     /\ written = <<>> /\ nread = 0
                     /\ pc = "done" /\ result = "ok"
                     /\ value = call.h0.ticks[TicksAxis]
       /\ TicksAxis \notin DOMAIN call.h0.ticks =>
              /\ TicksQueries = <<Line(None, "CNTS", <<<<TicksAxis, "?">>>>, <<>>)>>
              /\ written[1].cmd = "CNTS"
              /\ (pc = "done" /\ result = "ok") =>
                     /\ TicksAxis \in DOMAIN hist.ticks
                     /\ call.op = "get_encoder_ticks_per_mm" =>
                            value = hist.ticks[TicksAxis]
              /\ (pc = "done" /\ Len(written) = 1 /\ result # "ok") =>
                     TicksAxis \notin DOMAIN hist.ticks

C39_Witness ==
    /\ call.op = "get_encoder_ticks_per_mm" /\ pc = "done" /\ result = "ok"
    /\ call.args = <<"x">> /\ "X" \in DOMAIN call.h0.ticks
    /\ written = <<>> /\ nread = 0 /\ skipped_replies > 0
    /\ value = call.h0.ticks["X"]
    /\ "Y" \notin DOMAIN hist.ticks

=========================================================================
